---- MODULE Spec2Model ----
(***************************************************************************)
(* The OAuth connection lifecycle of null-horizon's server:                *)
(* FinancialOAuthService (generateAuthUrl, handleCallback, refreshToken,   *)
(* revokeAccess) over the in-memory pendingStates map and the              *)
(* financial.connected_accounts / financial.providers tables.              *)
(*                                                                         *)
(* Every request is an async function: it runs without interruption up to  *)
(* an await, so one action is one synchronous segment (the code between    *)
(* two awaits) together with the database statement or provider call that  *)
(* the await resolves.  Time is abstract: a setTimeout may fire at any     *)
(* point after it was armed.  The database is assumed to answer; what it   *)
(* rejects (unique and NOT NULL constraints, a column the table does not   *)
(* have) is modelled.                                                      *)
(*                                                                         *)
(* Also modelled: the account routes of the financial router (sync, GET,   *)
(* PATCH, the callback endpoint behind the authentication middleware),     *)
(* the refreshExpiringTokens sweep, and TokenEncryption.encrypt / decrypt  *)
(* byte by byte, with crypto.createCipherGCM / createDecipherGCM read as   *)
(* the AES-256-GCM cipher and decipher of node:crypto.                     *)
(*                                                                         *)
(* Of chronicler's server: the retry bookkeeping of the job repositories   *)
(* (FeedJobRepository and AIJobRepository: findPending, markAsRunning,     *)
(* markAsCompleted, markAsFailed) and FeedSubscriptionRepository           *)
(* (subscribe, unsubscribe) over user.feed_subscriptions with its unique   *)
(* index on (user_id, feed_id).                                            *)
(***************************************************************************)
EXTENDS Integers, Sequences, FiniteSets, TLC

\* ---- bounds ----
MaxStates == 2
\* longest plaintext handed to encrypt, in characters
MaxPlain == 2

\* ---- domains ----
None == "none"
Users == {"u1", "u2"}
ProviderNames == {"coinbase", "schwab"}
ExternalIds == {"ext1"}
IssuedAccess == {"at1"}      \* access tokens the code exchange returns
RefreshedAccess == {"at2"}   \* access tokens a refresh returns
IssuedRefresh == {"rt1"}
RotatedRefresh == {"rt2"}
Keys == {"k1", "k2"}
Codes == {"abc"}
\* expires_in of a token response, in seconds, when the provider sends one
ExpiresIn == {"3600"}
\* provider credentials present in the environment
Configurations == {{"coinbase"}, {"coinbase", "schwab"}}
StateIds == 1..MaxStates
\* request slots: at most two requests are in flight
Reqs == {1, 2}

\* absent values of record type (undefined / null)
NoOAuth == [userId |-> None, providerId |-> None, redirectUri |-> None]
NoTok == [access_token |-> None, refresh_token |-> None, expires_in |-> None]
NoBlob == [encrypted |-> None, key |-> None]

\* no refreshExpiringTokens call is running
NoSweep == [pc |-> "idle", selected |-> {}, children |-> {}, succeeded |-> {},
            failed |-> {}]

\* redirect URI built by the routes from the :provider path parameter
RedirectUriFor(p) == <<"callback", p>>
RedirectUris == {RedirectUriFor(p) : p \in ProviderNames}

\* error messages
ErrInvalidState == "Invalid or expired state parameter"
ErrRedirect == "Redirect URI mismatch"
ErrProviderNotFound == "Provider not found"
ErrProviderConfig == "Provider configuration not found"
ErrTokenExchange == "Token exchange failed"
ErrAccountInfo == "Failed to get account info"
ErrEncrypt == "Encryption failed"
ErrDecrypt == "Token decryption failed"
ErrInsert == "insert rejected"
ErrFetch == "fetch failed"
ErrRefresh == "Token refresh failed"
ErrNotConfigured == "not found or not configured"
ErrNotInDb == "not found in database"
ErrColumn == "column does not exist"

VARIABLES
  providers,      \* FinancialOAuthService.providers: names configured from the environment
  pendingStates,  \* FinancialOAuthService.pendingStates: state -> OAuthState
  timers,         \* armed setTimeout callbacks, one per issued state
  nextState,      \* the next value crypto.randomBytes returns (always fresh)
  encKey,         \* process.env.ENCRYPTION_KEY
  dbProviders,    \* financial.providers: name -> is_active
  accounts,       \* financial.connected_accounts: sequence of rows, id = index
  reqs,           \* in-flight requests: position and locals of each async call
  consumed,       \* history: how many handleCallback calls obtained each state's record
  timerFired,     \* history: the expiry timer of the state has run
  sweep,          \* the running refreshExpiringTokens call: position and locals
  cipher,         \* a TokenEncryption.encrypt / decrypt call: inputs and outputs
  jobs,           \* system.feed_jobs / system.ai_jobs: one job row of each table
  jobCalls,       \* in-flight markAsFailed calls: position and locals
  failures,       \* history: how many markAsFailed calls on each table's job completed
  subscriptions,  \* user.feed_subscriptions: sequence of rows, id = index
  subCalls        \* in-flight subscribe calls: position and locals

vars == <<providers, pendingStates, timers, nextState, encKey, dbProviders,
          accounts, reqs, consumed, timerFired, sweep, cipher,
          jobs, jobCalls, failures, subscriptions, subCalls>>

\* the tables and calls of chronicler's repositories
chronicler == <<jobs, jobCalls, failures, subscriptions, subCalls>>

\* ---- TokenEncryption ----
\* encrypt: throws on empty plaintext or missing key; else ciphertext under key
Encrypt(plaintext, key) ==
  IF plaintext = None \/ key = None THEN [ok |-> FALSE, blob |-> NoBlob]
  ELSE [ok |-> TRUE, blob |-> [encrypted |-> plaintext, key |-> key]]

\* decrypt: the GCM tag verifies only under the key that produced the blob
Decrypt(blob, key) ==
  IF blob = NoBlob \/ key = None THEN [ok |-> FALSE, text |-> None]
  ELSE IF blob.key # key THEN [ok |-> FALSE, text |-> None]
  ELSE [ok |-> TRUE, text |-> blob.encrypted]

EncryptTokensMutPlain(access, refresh, key) ==
  [ok |-> TRUE, access |-> [encrypted |-> access, key |-> None],
   refresh |-> IF refresh = None THEN NoBlob ELSE [encrypted |-> refresh, key |-> None]]

\* encryptTokens: refresh token is optional
EncryptTokens(access, refresh, key) ==
  LET a == Encrypt(access, key)
      r == IF refresh = None THEN [ok |-> TRUE, blob |-> NoBlob] ELSE Encrypt(refresh, key)
  IN  [ok |-> a.ok /\ r.ok, access |-> a.blob, refresh |-> r.blob]

\* decryptTokens: refresh token stays null when the column is null
DecryptTokens(row, key) ==
  LET a == Decrypt(row.encrypted_access_token, key)
      r == IF row.encrypted_refresh_token = NoBlob THEN [ok |-> TRUE, text |-> None]
           ELSE Decrypt(row.encrypted_refresh_token, key)
  IN  [ok |-> a.ok /\ r.ok, accessToken |-> a.text, refreshToken |-> r.text]

\* ---- TokenEncryption.encrypt / decrypt, byte by byte ----
\* Encrypt and Decrypt above are these two as the repositories see them: a
\* blob decrypts under the key that made it. Here a string is a sequence of
\* characters, a byte a number below 16 and a hex digit a number below 4
\* written as a character, so that a byte prints as two digits.
\* characters of a JavaScript string: ASCII, a two-byte character, an
\* unpaired surrogate; Replacement is U+FFFD
Chars == {"a", "e_acute", "lone_surrogate"}
Replacement == "replacement"
HexDigits == <<"0", "1", "2", "3">>
\* a character that is no hex digit
Junk == "z"
\* values crypto.randomBytes(IV_LENGTH) returns
Ivs == {<<5>>, <<10>>}
AAD == "oauth-token"
\* ENCRYPTION_KEY: unset, of the wrong length, or 64 hex characters
KeyConfigs == Keys \cup {None, "short"}
ErrEmpty == "Cannot encrypt empty or null data"
ErrStructure == "Invalid encrypted data structure"
ErrDecryption == "Decryption failed"

\* strings of at most n characters
RECURSIVE StringsUpTo(_)
StringsUpTo(n) ==
  IF n = 0 THEN {<<>>}
  ELSE LET shorter == StringsUpTo(n - 1)
       IN  shorter \cup {Append(s, c) : s \in shorter, c \in Chars}

\* Buffer.from(plaintext, 'utf8') / cipher.update(plaintext, 'utf8', ...):
\* an unpaired surrogate is written as the bytes of U+FFFD
CharBytes(c) ==
  IF c = "a" THEN <<1>>
  ELSE IF c = "e_acute" THEN <<12, 9>>
  ELSE <<14, 11>>

RECURSIVE Utf8(_)
Utf8(str) == IF str = <<>> THEN <<>> ELSE CharBytes(Head(str)) \o Utf8(Tail(str))

\* decipher.update(..., 'utf8'): bytes to characters, U+FFFD for what is no
\* character
RECURSIVE Utf8Decode(_)
Utf8Decode(bytes) ==
  IF bytes = <<>> THEN <<>>
  ELSE IF Head(bytes) = 1 THEN <<"a">> \o Utf8Decode(Tail(bytes))
  ELSE IF Len(bytes) >= 2 /\ Head(bytes) = 12 /\ bytes[2] = 9
  THEN <<"e_acute">> \o Utf8Decode(Tail(Tail(bytes)))
  ELSE IF Len(bytes) >= 2 /\ Head(bytes) = 14 /\ bytes[2] = 11
  THEN <<Replacement>> \o Utf8Decode(Tail(Tail(bytes)))
  ELSE <<Replacement>> \o Utf8Decode(Tail(bytes))

\* buffer.toString('hex'): two digits per byte
RECURSIVE Hex(_)
Hex(bytes) ==
  IF bytes = <<>> THEN <<>>
  ELSE <<HexDigits[(Head(bytes) \div 4) + 1], HexDigits[(Head(bytes) % 4) + 1]>>
       \o Hex(Tail(bytes))

IsHexDigit(d) == \E n \in 1..Len(HexDigits) : HexDigits[n] = d
DigitValue(d) == (CHOOSE n \in 1..Len(HexDigits) : HexDigits[n] = d) - 1

\* Buffer.from(text, 'hex'): decodes pairs of digits and stops, without an
\* error, at the first pair that is not two hex digits or at a single
\* trailing character
RECURSIVE FromHex(_)
FromHex(text) ==
  IF Len(text) < 2 \/ ~IsHexDigit(text[1]) \/ ~IsHexDigit(text[2]) THEN <<>>
  ELSE <<DigitValue(text[1]) * 4 + DigitValue(text[2])>> \o FromHex(Tail(Tail(text)))

\* getEncryptionKey: the key must be set and 64 characters long
GetEncryptionKey(env) == env \in Keys

\* AES in counter mode: byte i of the key stream under a key and a nonce
KeyStream(key, iv, i) ==
  ((IF key = "k1" THEN 3 ELSE 6) + 5 * (IF iv = <<>> THEN 0 ELSE iv[1]) + 7 * i) % 16

\* exclusive or of two bytes
Xor(a, b) ==
  LET bit(w) == (((a \div w) + (b \div w)) % 2) * w
  IN  bit(1) + bit(2) + bit(4) + bit(8)

Crypt(bytes, key, iv) ==
  [i \in 1..Len(bytes) |-> Xor(bytes[i], KeyStream(key, iv, i))]

\* the GCM authentication tag: it matches for no other key, nonce,
\* additional data or ciphertext
Mac(key, iv, aad, ct) == [key |-> key, iv |-> iv, aad |-> aad, ct |-> ct]
NoTag == [key |-> None, iv |-> <<>>, aad |-> None, ct |-> <<>>]

\* an absent EncryptedData, and the outcome of a call that has not returned
NoData == [encrypted |-> <<>>, iv |-> <<>>, tag |-> NoTag]
NoOut == [ok |-> FALSE, text |-> <<>>, err |-> None]

\* TokenEncryption.encrypt(plaintext) under ENCRYPTION_KEY = env, with iv the
\* random nonce
encrypt(plaintext, env, iv) ==
  IF plaintext = <<>> THEN [ok |-> FALSE, err |-> ErrEmpty, data |-> NoData]
  ELSE IF ~GetEncryptionKey(env) THEN [ok |-> FALSE, err |-> ErrEncrypt, data |-> NoData]
  ELSE LET ct == Crypt(Utf8(plaintext), env, iv)
       IN  [ok |-> TRUE, err |-> None,
            data |-> [encrypted |-> Hex(ct), iv |-> Hex(iv),
                      tag |-> Mac(env, iv, AAD, ct)]]

\* decipher.setAuthTag / final: the tag is checked against the one computed
\* from the key, the nonce, the additional data and the ciphertext
TagVerifiesMutAlways(tag, key, iv, ct) == TRUE

TagVerifies(tag, key, iv, ct) == iv # <<>> /\ tag = Mac(key, iv, AAD, ct)

\* TokenEncryption.decrypt(encryptedData) under ENCRYPTION_KEY = env; update
\* refuses a hex string of odd length
decrypt(encryptedData, env) ==
  IF \/ encryptedData.encrypted = <<>>
     \/ encryptedData.iv = <<>>
     \/ encryptedData.tag = NoTag
  THEN [ok |-> FALSE, err |-> ErrStructure, text |-> <<>>]
  ELSE IF ~GetEncryptionKey(env) \/ Len(encryptedData.encrypted) % 2 # 0
  THEN [ok |-> FALSE, err |-> ErrDecryption, text |-> <<>>]
  ELSE LET iv == FromHex(encryptedData.iv)
           ct == FromHex(encryptedData.encrypted)
       IN  IF ~TagVerifies(encryptedData.tag, env, iv, ct)
           THEN [ok |-> FALSE, err |-> ErrDecryption, text |-> <<>>]
           ELSE [ok |-> TRUE, err |-> None, text |-> Utf8Decode(Crypt(ct, env, iv))]

\* no encrypt / decrypt call under observation
NoCipher == [pc |-> "idle", plaintext |-> <<>>, key |-> None, orig |-> NoData,
             data |-> NoData, out |-> NoOut]

\* ---- repositories ----
\* FinancialProviderRepository.findById / findByName: only active rows
ProviderFind(db, name) == name \in DOMAIN db /\ db[name]

FindByIdAndUserIdMutAnyUser(accts, id, userId) == id \in 1..Len(accts)

\* FinancialConnectedAccountRepository.findByIdAndUserId
FindByIdAndUserId(accts, id, userId) ==
  id \in 1..Len(accts) /\ accts[id].user_id = userId

\* UNIQUE(user_id, provider_id, external_account_id): ids of the conflicting rows
UniqueConflictsMutNone(accts, userId, providerId, externalId) == {}

UniqueConflicts(accts, userId, providerId, externalId) ==
  {i \in 1..Len(accts) : /\ accts[i].user_id = userId
                         /\ accts[i].provider_id = providerId
                         /\ accts[i].external_account_id = externalId}

\* the row FinancialConnectedAccountRepository.create inserts
NewRow(userId, providerId, externalId, enc, tokenExpiresAt) ==
  [user_id |-> userId, provider_id |-> providerId,
   external_account_id |-> externalId,
   encrypted_access_token |-> enc.access,
   encrypted_refresh_token |-> enc.refresh,
   token_expires_at |-> tokenExpiresAt,
   is_active |-> TRUE, sync_status |-> "pending", sync_error |-> None,
   last_sync_at |-> None]

\* columns of financial.connected_accounts
Columns ==
  {"id", "user_id", "provider_id", "encrypted_access_token",
   "encrypted_refresh_token", "token_expires_at", "refresh_token_expires_at",
   "external_account_id", "account_name", "account_type", "is_active",
   "last_sync_at", "sync_status", "sync_error", "created_at", "updated_at"}

\* tokenExpiresAt = expires_in ? now + expires_in s : undefined; an hour ahead
\* lies beyond the refresh window ("later"), "soon" lies inside it
TokenExpiresAt(expires_in) == IF expires_in # None THEN "later" ELSE None

\* update / updateByIdAndUserId build the SET clause: a copy of data in which,
\* when accessToken is given, the two token keys are replaced by the encrypted
\* columns; undefined values are left out of the statement
UpdateData(data, enc) ==
  LET tokens == "accessToken" \in DOMAIN data /\ data.accessToken # None
      kept == {k \in DOMAIN data :
                 /\ data[k] # None
                 /\ tokens => k \notin {"accessToken", "refreshToken"}}
      encd == IF ~tokens THEN {}
              ELSE {"encrypted_access_token"} \cup
                   (IF enc.refresh # NoBlob THEN {"encrypted_refresh_token"} ELSE {})
  IN  [k \in kept \cup encd |->
         IF k = "encrypted_access_token" THEN enc.access
         ELSE IF k = "encrypted_refresh_token" THEN enc.refresh
         ELSE data[k]]

\* the UPDATE statement on the rows in ids: the keys of the SET clause are
\* its column names, and a name the table does not have rejects the statement
SqlUpdate(accts, ids, set) ==
  IF ~(DOMAIN set \subseteq Columns)
  THEN [ok |-> FALSE, err |-> ErrColumn, accts |-> accts]
  ELSE [ok |-> TRUE, err |-> None,
        accts |-> [i \in 1..Len(accts) |->
                     IF i \notin ids THEN accts[i]
                     ELSE [c \in DOMAIN accts[i] |->
                             IF c \in DOMAIN set THEN set[c] ELSE accts[i][c]]]]

\* FinancialConnectedAccountRepository.update: encryptTokens, then UPDATE by id
Update(accts, id, data, key) ==
  LET enc == IF data.accessToken # None
             THEN EncryptTokens(data.accessToken, data.refreshToken, key)
             ELSE [ok |-> TRUE, access |-> NoBlob, refresh |-> NoBlob]
  IN  IF ~enc.ok THEN [ok |-> FALSE, err |-> ErrEncrypt, accts |-> accts]
      ELSE SqlUpdate(accts, {id} \cap (1..Len(accts)), UpdateData(data, enc))

\* UPDATE ... WHERE id = id AND user_id = userId
UpdateByIdAndUserId(accts, id, userId, data, key) ==
  LET enc == IF data.accessToken # None
             THEN EncryptTokens(data.accessToken, data.refreshToken, key)
             ELSE [ok |-> TRUE, access |-> NoBlob, refresh |-> NoBlob]
      ids == {i \in {id} \cap (1..Len(accts)) : accts[i].user_id = userId}
  IN  IF ~enc.ok THEN [ok |-> FALSE, err |-> ErrEncrypt, accts |-> accts, rows |-> {}]
      ELSE [rows |-> ids] @@ SqlUpdate(accts, ids, UpdateData(data, enc))

UpdateSyncStatusMutNoWrite(accts, id, status, error) == accts

\* updateSyncStatus: by id only
UpdateSyncStatus(accts, id, status, error) ==
  IF id \in 1..Len(accts)
  THEN [accts EXCEPT ![id].sync_status = status, ![id].sync_error = error,
                     ![id].last_sync_at = "now"]
  ELSE accts

DeactivateByIdAndUserIdMutToggle(accts, id, userId) ==
  IF FindByIdAndUserId(accts, id, userId)
  THEN [accts EXCEPT ![id].is_active = ~@, ![id].sync_status = "disconnected"]
  ELSE accts

\* deactivateByIdAndUserId
DeactivateByIdAndUserId(accts, id, userId) ==
  IF FindByIdAndUserId(accts, id, userId)
  THEN [accts EXCEPT ![id].is_active = FALSE, ![id].sync_status = "disconnected"]
  ELSE accts

\* ---- chronicler: FeedJobRepository and AIJobRepository ----
\* system.feed_jobs and system.ai_jobs; the two repositories run the same
\* statements, each on its own table
Tables == {"system.feed_jobs", "system.ai_jobs"}
\* max_retries INTEGER DEFAULT 3
MaxRetries == 3
\* markAsFailed calls made on one job
MaxFailures == 2
\* call slots: at most two repository calls are in flight
Calls == {1, 2}
\* ids a caller passes: the id of the table's job, or one no row has
JobIds == {"job", "unknown"}

\* everything of the financial service, which the repositories of chronicler
\* never touch
financial == <<providers, pendingStates, timers, nextState, encKey, dbProviders,
               accounts, reqs, consumed, timerFired, sweep, cipher>>

\* a job as create() and the column defaults leave it
NewJob(maxRetries) ==
  [status |-> "pending", retry_count |-> 0, max_retries |-> maxRetries,
   error_message |-> None, completed_at |-> None]

\* findById: the SELECT finds a row
JobFindById(id) == id = "job"

\* findPending without jobType and limit: the ids of the table's jobs whose
\* status is pending or failed and whose retry_count is below max_retries
FindPending(rows, t) ==
  IF /\ rows[t].status \in {"pending", "failed"}
     /\ rows[t].retry_count < rows[t].max_retries
  THEN {"job"}
  ELSE {}

NoJobCall ==
  [pc |-> "idle", table |-> None, id |-> None, shouldRetry |-> FALSE,
   job |-> [retry_count |-> 0, max_retries |-> 0]]

\* markAsFailed calls on table t that have not returned
InFlightFailures(t) ==
  Cardinality({c \in Calls : jobCalls[c].pc # "idle" /\ jobCalls[c].table = t
                             /\ jobCalls[c].id = "job"})

\* markAsFailed(id, errorMessage, shouldRetry) is called and awaits findById
MarkAsFailedCall(c, t, id, shouldRetry) ==
  /\ jobCalls[c].pc = "idle"
  /\ \A q \in Calls : q < c => jobCalls[q].pc # "idle"
  /\ id = "job" => failures[t] + InFlightFailures(t) < MaxFailures
  /\ jobCalls' = [jobCalls EXCEPT ![c] =
        [NoJobCall EXCEPT !.pc = "mf_findById", !.table = t, !.id = id,
                          !.shouldRetry = shouldRetry]]
  /\ UNCHANGED <<jobs, failures, subscriptions, subCalls>>
  /\ UNCHANGED financial

\* findById resolves: throw "Job not found", or keep the row that was read
MfFindById(c) ==
  /\ jobCalls[c].pc = "mf_findById"
  /\ LET call == jobCalls[c]
     IN  jobCalls' = [jobCalls EXCEPT ![c] =
           IF ~JobFindById(call.id)
           THEN NoJobCall
           ELSE [call EXCEPT !.pc = "mf_update",
                    !.job = [retry_count |-> jobs[call.table].retry_count,
                             max_retries |-> jobs[call.table].max_retries]]]
  /\ UNCHANGED <<jobs, failures, subscriptions, subCalls>>
  /\ UNCHANGED financial

\* the row markAsFailed writes, from the job it read
FailedJob(row, job, shouldRetry) ==
  LET newRetryCount == job.retry_count + 1
      canRetry == shouldRetry /\ newRetryCount < job.max_retries
  IN  [row EXCEPT !.status = IF canRetry THEN "pending" ELSE "failed",
                  !.error_message = "message",
                  !.retry_count = newRetryCount,
                  !.completed_at = IF canRetry THEN None ELSE "now"]

\* the UPDATE runs and markAsFailed returns the row
MfUpdate(c) ==
  /\ jobCalls[c].pc = "mf_update"
  /\ LET call == jobCalls[c]
     IN  /\ jobs' = [jobs EXCEPT ![call.table] = FailedJob(@, call.job, call.shouldRetry)]
         /\ failures' = [failures EXCEPT ![call.table] = @ + 1]
  /\ jobCalls' = [jobCalls EXCEPT ![c] = NoJobCall]
  /\ UNCHANGED <<subscriptions, subCalls>>
  /\ UNCHANGED financial

\* markAsRunning(id): one UPDATE
MarkAsRunning(t) ==
  /\ jobs[t].status # "running"
  /\ jobs' = [jobs EXCEPT ![t].status = "running"]
  /\ UNCHANGED <<jobCalls, failures, subscriptions, subCalls>>
  /\ UNCHANGED financial

\* markAsCompleted(id): one UPDATE
MarkAsCompleted(t) ==
  /\ jobs[t].status = "running"
  /\ jobs' = [jobs EXCEPT ![t].status = "completed", ![t].completed_at = "now"]
  /\ UNCHANGED <<jobCalls, failures, subscriptions, subCalls>>
  /\ UNCHANGED financial

\* ---- chronicler: FeedSubscriptionRepository ----
Feeds == {"f1"}
CustomNames == {"news"}
\* options.notificationEnabled: undefined or true (false is what create
\* stores when the option is undefined)
NotificationOptions == {None, "true"}

FindByUserAndFeedMutActiveOnly(subs, userId, feedId) ==
  LET found == {i \in 1..Len(subs) : /\ subs[i].user_id = userId
                                     /\ subs[i].feed_id = feedId
                                     /\ subs[i].is_active}
  IN  IF found = {} THEN 0 ELSE CHOOSE i \in found : \A j \in found : i <= j

\* findByUserAndFeed: the id of the first row of the pair, 0 if there is none
FindByUserAndFeed(subs, userId, feedId) ==
  LET found == {i \in 1..Len(subs) : subs[i].user_id = userId /\ subs[i].feed_id = feedId}
  IN  IF found = {} THEN 0 ELSE CHOOSE i \in found : \A j \in found : i <= j

\* idx_feed_subscriptions_unique: the pair has a row already
SubscriptionConflicts(subs, userId, feedId) ==
  \E i \in 1..Len(subs) : subs[i].user_id = userId /\ subs[i].feed_id = feedId

NoSubCall ==
  [pc |-> "idle", user |-> None, feed |-> None, customName |-> None,
   notificationEnabled |-> None, existing |-> 0,
   custom_name |-> None, notification_enabled |-> None]

\* subscribe(userId, feedId, options) is called and awaits findByUserAndFeed
SubscribeCall(c, userId, feedId, customName, notificationEnabled) ==
  /\ subCalls[c].pc = "idle"
  /\ \A q \in Calls : q < c => subCalls[q].pc # "idle"
  /\ subCalls' = [subCalls EXCEPT ![c] =
        [NoSubCall EXCEPT !.pc = "sb_find", !.user = userId, !.feed = feedId,
                          !.customName = customName,
                          !.notificationEnabled = notificationEnabled]]
  /\ UNCHANGED <<jobs, jobCalls, failures, subscriptions>>
  /\ UNCHANGED financial

\* findByUserAndFeed resolves: an active row is returned as it is, an
\* inactive one is to be updated, no row means create
SbFind(c) ==
  /\ subCalls[c].pc = "sb_find"
  /\ LET call == subCalls[c]
         existing == FindByUserAndFeed(subscriptions, call.user, call.feed)
     IN  subCalls' = [subCalls EXCEPT ![c] =
           IF existing = 0 THEN [call EXCEPT !.pc = "sb_create"]
           ELSE IF ~subscriptions[existing].is_active
           THEN [call EXCEPT !.pc = "sb_update", !.existing = existing,
                    !.custom_name = subscriptions[existing].custom_name,
                    !.notification_enabled = subscriptions[existing].notification_enabled]
           ELSE NoSubCall]
  /\ UNCHANGED <<jobs, jobCalls, failures, subscriptions>>
  /\ UNCHANGED financial

\* update(existing.id, {is_active: true, custom_name, notification_enabled})
SbUpdate(c) ==
  /\ subCalls[c].pc = "sb_update"
  /\ LET call == subCalls[c]
     IN  subscriptions' = [subscriptions EXCEPT
            ![call.existing].is_active = TRUE,
            ![call.existing].custom_name =
               IF call.customName # None THEN call.customName ELSE call.custom_name,
            ![call.existing].notification_enabled =
               IF call.notificationEnabled # None THEN call.notificationEnabled
               ELSE call.notification_enabled]
  /\ subCalls' = [subCalls EXCEPT ![c] = NoSubCall]
  /\ UNCHANGED <<jobs, jobCalls, failures>>
  /\ UNCHANGED financial

\* create({user_id, feed_id, is_active: true, ...}): the INSERT appends the
\* row, or the unique index rejects it and subscribe throws
SbCreate(c) ==
  /\ subCalls[c].pc = "sb_create"
  /\ LET call == subCalls[c]
     IN  subscriptions' =
           IF SubscriptionConflicts(subscriptions, call.user, call.feed)
           THEN subscriptions
           ELSE Append(subscriptions,
                  [user_id |-> call.user, feed_id |-> call.feed, is_active |-> TRUE,
                   notification_enabled |->
                      IF call.notificationEnabled # None THEN call.notificationEnabled
                      ELSE "false",
                   custom_name |-> call.customName])
  /\ subCalls' = [subCalls EXCEPT ![c] = NoSubCall]
  /\ UNCHANGED <<jobs, jobCalls, failures>>
  /\ UNCHANGED financial

\* unsubscribe(userId, feedId): one UPDATE by the pair; it throws when no row
\* matched, which changes nothing
Unsubscribe(userId, feedId) ==
  /\ SubscriptionConflicts(subscriptions, userId, feedId)
  /\ subscriptions' =
        [i \in 1..Len(subscriptions) |->
           IF subscriptions[i].user_id = userId /\ subscriptions[i].feed_id = feedId
           THEN [subscriptions[i] EXCEPT !.is_active = FALSE]
           ELSE subscriptions[i]]
  /\ UNCHANGED <<jobs, jobCalls, failures, subCalls>>
  /\ UNCHANGED financial

\* the tables and calls of chronicler before any call: one new job in each
\* job table, no subscription
InitChronicler ==
  /\ jobs = [t \in Tables |-> NewJob(MaxRetries)]
  /\ jobCalls = [c \in Calls |-> NoJobCall]
  /\ failures = [t \in Tables |-> 0]
  /\ subscriptions = <<>>
  /\ subCalls = [c \in Calls |-> NoSubCall]

\* ---- requests ----
NoResult == [ret |-> None, err |-> None, id |-> 0]

Idle ==
  [op |-> None, pc |-> "idle", user |-> None, provider |-> None, state |-> 0,
   uri |-> None, acct |-> 0, found |-> FALSE, oauth |-> NoOAuth, tok |-> NoTok,
   info |-> None, remote |-> None, fetched |-> FALSE, wrote |-> FALSE,
   conflict |-> 0, result |-> NoResult]

\* the promise settles: the locals of the body are dropped, the outcome stays
Done(rq, ret, err, id) ==
  [rq EXCEPT !.pc = "done", !.tok = NoTok, !.info = None,
             !.result = [ret |-> ret, err |-> err, id |-> id]]

\* a settled promise's continuation is a microtask: it runs before any
\* timer, I/O completion or new request is served
NoneDone == \A q \in Reqs : reqs[q].pc # "done"

\* request slots are interchangeable, so a new request takes the lowest idle one
Free(r) == /\ NoneDone
           /\ reqs[r].pc = "idle"
           /\ \A q \in Reqs : q < r => reqs[q].pc # "idle"

\* the await at position pc of request r resolves
At(r, pc) == NoneDone /\ reqs[r].pc = pc

InFlightGen == Cardinality({r \in Reqs : reqs[r].pc = "gen_findByName"})

InitService ==
  /\ providers \in Configurations
  /\ pendingStates = [s \in StateIds |-> NoOAuth]
  /\ timers = {}
  /\ nextState = 1
  /\ encKey = "k1"
  /\ dbProviders = [p \in ProviderNames |-> TRUE]
  /\ accounts = <<>>
  /\ reqs = [r \in Reqs |-> Idle]
  /\ consumed = [s \in StateIds |-> 0]
  /\ timerFired = [s \in StateIds |-> FALSE]
  /\ sweep = NoSweep

Init == InitService /\ cipher = NoCipher /\ InitChronicler

\* ---- generateAuthUrl ----
\* call: providers.get(providerName), throw if absent, then await findByName
GenerateAuthUrlCall(r, userId, providerName) ==
  /\ Free(r)
  /\ nextState + InFlightGen <= MaxStates
  /\ LET rq == [Idle EXCEPT !.op = "generateAuthUrl", !.user = userId,
                            !.provider = providerName,
                            !.uri = RedirectUriFor(providerName)]
     IN  reqs' = [reqs EXCEPT ![r] =
                    IF providerName \notin providers
                    THEN Done(rq, "throw", ErrNotConfigured, 0)
                    ELSE [rq EXCEPT !.pc = "gen_findByName"]]
  /\ UNCHANGED <<sweep, cipher, chronicler>>
  /\ UNCHANGED <<providers, pendingStates, timers, nextState, encKey,
                 dbProviders, accounts, consumed, timerFired>>

GenFindByNameMutStoreFirst(r) ==
  /\ At(r, "gen_findByName")
  /\ pendingStates' = [pendingStates EXCEPT ![nextState] =
        [userId |-> reqs[r].user, providerId |-> reqs[r].provider,
         redirectUri |-> reqs[r].uri]]
  /\ timers' = timers \cup {nextState}
  /\ nextState' = nextState + 1
  /\ reqs' = [reqs EXCEPT ![r] =
                IF ~ProviderFind(dbProviders, reqs[r].provider)
                THEN Done(@, "throw", ErrNotInDb, 0)
                ELSE Done([@ EXCEPT !.state = nextState], "value", None, 0)]
  /\ UNCHANGED <<sweep, cipher, chronicler>>
  /\ UNCHANGED <<providers, encKey, dbProviders, accounts, consumed, timerFired>>

\* findByName resolves: store the OAuthState under a fresh state, arm the timer
GenFindByName(r) ==
  /\ At(r, "gen_findByName")
  /\ IF ~ProviderFind(dbProviders, reqs[r].provider)
     THEN /\ reqs' = [reqs EXCEPT ![r] = Done(@, "throw", ErrNotInDb, 0)]
          /\ UNCHANGED <<pendingStates, timers, nextState>>
     ELSE /\ pendingStates' = [pendingStates EXCEPT ![nextState] =
                 [userId |-> reqs[r].user, providerId |-> reqs[r].provider,
                  redirectUri |-> reqs[r].uri]]
          /\ timers' = timers \cup {nextState}
          /\ nextState' = nextState + 1
          /\ reqs' = [reqs EXCEPT ![r] = Done([@ EXCEPT !.state = nextState],
                                              "value", None, 0)]
  /\ UNCHANGED <<sweep, cipher, chronicler>>
  /\ UNCHANGED <<providers, encKey, dbProviders, accounts, consumed, timerFired>>

TimerFireMutClear(s) ==
  /\ NoneDone
  /\ s \in timers
  /\ timers' = timers \ {s}
  /\ pendingStates' = [t \in StateIds |-> NoOAuth]
  /\ timerFired' = [timerFired EXCEPT ![s] = TRUE]
  /\ UNCHANGED <<sweep, cipher, chronicler>>
  /\ UNCHANGED <<providers, nextState, encKey, dbProviders, accounts, reqs, consumed>>

TimerFireMutNoDelete(s) ==
  /\ NoneDone
  /\ s \in timers
  /\ timers' = timers \ {s}
  /\ timerFired' = [timerFired EXCEPT ![s] = TRUE]
  /\ UNCHANGED <<sweep, cipher, chronicler>>
  /\ UNCHANGED <<providers, pendingStates, nextState, encKey, dbProviders, accounts,
                 reqs, consumed>>

\* setTimeout(() => pendingStates.delete(state), 10 min)
TimerFire(s) ==
  /\ NoneDone
  /\ s \in timers
  /\ timers' = timers \ {s}
  /\ pendingStates' = [pendingStates EXCEPT ![s] = NoOAuth]
  /\ timerFired' = [timerFired EXCEPT ![s] = TRUE]
  /\ UNCHANGED <<sweep, cipher, chronicler>>
  /\ UNCHANGED <<providers, nextState, encKey, dbProviders, accounts, reqs, consumed>>

\* ---- handleCallback ----
\* pendingStates.delete(state)
DeleteStateMutKeep(ps, s) == ps

DeleteState(ps, s) == [ps EXCEPT ![s] = NoOAuth]

\* the catch block: every exception becomes {success: false, error}
CatchCallbackMutRethrow(rq, err) == Done(rq, "throw", err, 0)

CatchCallback(rq, err) == Done(rq, "false", err, 0)

\* the redirect URI check
RedirectMatchesMutAny(oauthState, uri) == TRUE

RedirectMatches(oauthState, uri) == oauthState.redirectUri = uri

\* call: pendingStates.get / delete and the redirect check run before the first await
HandleCallbackCall(r, code, state, uri) ==
  /\ Free(r)
  /\ LET rq == [Idle EXCEPT !.op = "handleCallback", !.state = state, !.uri = uri]
         oauthState == pendingStates[state]
     IN  IF oauthState = NoOAuth
         THEN /\ reqs' = [reqs EXCEPT ![r] = Done(rq, "false", ErrInvalidState, 0)]
              /\ UNCHANGED <<pendingStates, consumed>>
         ELSE /\ pendingStates' = DeleteState(pendingStates, state)
              /\ consumed' = [consumed EXCEPT ![state] = @ + 1]
              /\ reqs' = [reqs EXCEPT ![r] =
                   IF ~RedirectMatches(oauthState, uri)
                   THEN Done([rq EXCEPT !.oauth = oauthState], "false", ErrRedirect, 0)
                   ELSE [rq EXCEPT !.oauth = oauthState, !.pc = "hc_findProvider"]]
  /\ UNCHANGED <<sweep, cipher, chronicler>>
  /\ UNCHANGED <<providers, timers, nextState, encKey, dbProviders, accounts, timerFired>>

\* financialProviders.findById resolves, then providers.get
HcFindProvider(r) ==
  /\ At(r, "hc_findProvider")
  /\ reqs' = [reqs EXCEPT ![r] =
       IF ~ProviderFind(dbProviders, @.oauth.providerId)
       THEN Done(@, "false", ErrProviderNotFound, 0)
       ELSE IF @.oauth.providerId \notin providers
       THEN Done(@, "false", ErrProviderConfig, 0)
       ELSE [@ EXCEPT !.pc = "hc_exchange"]]
  /\ UNCHANGED <<sweep, cipher, chronicler>>
  /\ UNCHANGED <<providers, pendingStates, timers, nextState, encKey, dbProviders,
                 accounts, consumed, timerFired>>

HcExchangeMutReinstate(r) ==
  /\ At(r, "hc_exchange")
  /\ \/ /\ \E at \in IssuedAccess \cup {None}, rt \in IssuedRefresh \cup {None},
                ei \in ExpiresIn \cup {None} :
             /\ at = None => (rt = None /\ ei = None)
             /\ reqs' = [reqs EXCEPT ![r] =
                [@ EXCEPT !.fetched = TRUE, !.pc = "hc_accountInfo",
                          !.tok = [access_token |-> at, refresh_token |-> rt,
                                   expires_in |-> ei]]]
        /\ UNCHANGED pendingStates
     \/ /\ \E err \in {ErrTokenExchange, ErrFetch} :
             reqs' = [reqs EXCEPT ![r] = CatchCallback([@ EXCEPT !.fetched = TRUE], err)]
        /\ pendingStates' = [pendingStates EXCEPT ![reqs[r].state] = reqs[r].oauth]
  /\ UNCHANGED <<sweep, cipher, chronicler>>
  /\ UNCHANGED <<providers, timers, nextState, encKey, dbProviders,
                 accounts, consumed, timerFired>>

\* exchangeCodeForTokens: the provider answers ok with a token response (one
\* without access_token carries nothing else), answers non-ok, or the fetch
\* rejects
HcExchange(r) ==
  /\ At(r, "hc_exchange")
  /\ \/ \E at \in IssuedAccess \cup {None}, rt \in IssuedRefresh \cup {None},
             ei \in ExpiresIn \cup {None} :
          /\ at = None => (rt = None /\ ei = None)
          /\ reqs' = [reqs EXCEPT ![r] =
             [@ EXCEPT !.fetched = TRUE, !.pc = "hc_accountInfo",
                       !.tok = [access_token |-> at, refresh_token |-> rt,
                                expires_in |-> ei]]]
     \/ \E err \in {ErrTokenExchange, ErrFetch} :
          reqs' = [reqs EXCEPT ![r] = CatchCallback([@ EXCEPT !.fetched = TRUE], err)]
  /\ UNCHANGED <<sweep, cipher, chronicler>>
  /\ UNCHANGED <<providers, pendingStates, timers, nextState, encKey, dbProviders,
                 accounts, consumed, timerFired>>

\* getAccountInfo: Coinbase /user or Schwab /accounts; Schwab's first account
\* may carry neither accountNumber nor hashValue
HcAccountInfo(r) ==
  /\ At(r, "hc_accountInfo")
  /\ \/ \E e \in ExternalIds \cup {None} :
          /\ e = None => reqs[r].oauth.providerId = "schwab"
          /\ reqs' = [reqs EXCEPT ![r] = [@ EXCEPT !.info = e, !.pc = "hc_create"]]
     \/ reqs' = [reqs EXCEPT ![r] = CatchCallback(@, ErrAccountInfo)]
  /\ UNCHANGED <<sweep, cipher, chronicler>>
  /\ UNCHANGED <<providers, pendingStates, timers, nextState, encKey, dbProviders,
                 accounts, consumed, timerFired>>

HcCreateMutRequestValues(r) ==
  /\ At(r, "hc_create")
  /\ LET rq == reqs[r]
         enc == EncryptTokens(rq.tok.access_token, rq.tok.refresh_token, encKey)
         dup == UniqueConflicts(accounts, rq.user, rq.uri[2], rq.info)
     IN  IF ~enc.ok
         THEN /\ reqs' = [reqs EXCEPT ![r] = CatchCallback(rq, ErrEncrypt)]
              /\ UNCHANGED accounts
         ELSE IF rq.info = None \/ dup # {}
         THEN /\ reqs' = [reqs EXCEPT ![r] =
                   CatchCallback([rq EXCEPT !.conflict =
                       IF dup = {} THEN 0 ELSE CHOOSE i \in dup : TRUE], ErrInsert)]
              /\ UNCHANGED accounts
         ELSE /\ accounts' = Append(accounts,
                   NewRow(rq.user, rq.uri[2], rq.info, enc,
                          TokenExpiresAt(rq.tok.expires_in)))
              /\ reqs' = [reqs EXCEPT ![r] =
                   Done([rq EXCEPT !.wrote = TRUE], "true", None, Len(accounts) + 1)]
  /\ UNCHANGED <<sweep, cipher, chronicler>>
  /\ UNCHANGED <<providers, pendingStates, timers, nextState, encKey, dbProviders,
                 consumed, timerFired>>

\* financialConnectedAccounts.create: encryptTokens, then a plain INSERT
HcCreate(r) ==
  /\ At(r, "hc_create")
  /\ LET rq == reqs[r]
         enc == EncryptTokens(rq.tok.access_token, rq.tok.refresh_token, encKey)
         dup == UniqueConflicts(accounts, rq.oauth.userId, rq.oauth.providerId, rq.info)
     IN  IF ~enc.ok
         THEN /\ reqs' = [reqs EXCEPT ![r] = CatchCallback(rq, ErrEncrypt)]
              /\ UNCHANGED accounts
         ELSE IF rq.info = None \/ dup # {}
         THEN /\ reqs' = [reqs EXCEPT ![r] =
                   CatchCallback([rq EXCEPT !.conflict =
                       IF dup = {} THEN 0 ELSE CHOOSE i \in dup : TRUE], ErrInsert)]
              /\ UNCHANGED accounts
         ELSE /\ accounts' = Append(accounts,
                   NewRow(rq.oauth.userId, rq.oauth.providerId, rq.info, enc,
                          TokenExpiresAt(rq.tok.expires_in)))
              /\ reqs' = [reqs EXCEPT ![r] =
                   Done([rq EXCEPT !.wrote = TRUE], "true", None, Len(accounts) + 1)]
  /\ UNCHANGED <<sweep, cipher, chronicler>>
  /\ UNCHANGED <<providers, pendingStates, timers, nextState, encKey, dbProviders,
                 consumed, timerFired>>

\* ---- refreshToken ----
\* !account.refreshToken
HasRefreshTokenMutAlways(dec) == TRUE

HasRefreshToken(dec) == dec.refreshToken # None

\* call: getAccountWithTokens is awaited first
RefreshTokenCall(r, accountId, userId) ==
  /\ Free(r)
  /\ reqs' = [reqs EXCEPT ![r] = [Idle EXCEPT !.op = "refreshToken", !.acct = accountId,
                                              !.user = userId, !.pc = "rt_getAccount"]]
  /\ UNCHANGED <<sweep, cipher, chronicler>>
  /\ UNCHANGED <<providers, pendingStates, timers, nextState, encKey, dbProviders,
                 accounts, consumed, timerFired>>

\* getAccountWithTokens resolves or throws; no refresh token: return false
RtGetAccount(r) ==
  /\ At(r, "rt_getAccount")
  /\ LET rq == reqs[r]
     IN  reqs' = [reqs EXCEPT ![r] =
           IF ~FindByIdAndUserId(accounts, rq.acct, rq.user)
           THEN Done(rq, "false", None, 0)
           ELSE LET dec == DecryptTokens(accounts[rq.acct], encKey)
                    f == [rq EXCEPT !.found = TRUE, !.provider = accounts[rq.acct].provider_id]
                IN  IF ~dec.ok THEN [f EXCEPT !.pc = "rt_catch", !.result.err = ErrDecrypt]
                    ELSE IF ~HasRefreshToken(dec) THEN Done(f, "false", None, 0)
                    ELSE [f EXCEPT !.pc = "rt_findProvider",
                                   !.tok = [access_token |-> dec.accessToken,
                                            refresh_token |-> dec.refreshToken,
                                            expires_in |-> None]]]
  /\ UNCHANGED <<sweep, cipher, chronicler>>
  /\ UNCHANGED <<providers, pendingStates, timers, nextState, encKey, dbProviders,
                 accounts, consumed, timerFired>>

\* financialProviders.findById resolves, then providers.get
RtFindProvider(r) ==
  /\ At(r, "rt_findProvider")
  /\ reqs' = [reqs EXCEPT ![r] =
       IF ~ProviderFind(dbProviders, @.provider) \/ @.provider \notin providers
       THEN Done(@, "false", None, 0)
       ELSE [@ EXCEPT !.pc = "rt_fetch"]]
  /\ UNCHANGED <<sweep, cipher, chronicler>>
  /\ UNCHANGED <<providers, pendingStates, timers, nextState, encKey, dbProviders,
                 accounts, consumed, timerFired>>

\* POST tokenUrl grant_type=refresh_token: ok with a token response (the
\* refresh token rotated or not), non-ok, or the fetch rejects
RtFetch(r) ==
  /\ At(r, "rt_fetch")
  /\ \/ \E at \in RefreshedAccess, rt \in RotatedRefresh \cup {None},
             ei \in ExpiresIn \cup {None} :
          reqs' = [reqs EXCEPT ![r] =
             [@ EXCEPT !.fetched = TRUE, !.remote = "ok", !.pc = "rt_update",
                       !.tok = [access_token |-> at,
                                refresh_token |-> IF rt # None THEN rt
                                                  ELSE @.refresh_token,
                                expires_in |-> ei]]]
     \/ reqs' = [reqs EXCEPT ![r] =
             [@ EXCEPT !.fetched = TRUE, !.remote = "notok", !.pc = "rt_markError"]]
     \/ reqs' = [reqs EXCEPT ![r] =
             [@ EXCEPT !.fetched = TRUE, !.remote = "rejected", !.pc = "rt_catch",
                       !.result.err = ErrFetch]]
  /\ UNCHANGED <<sweep, cipher, chronicler>>
  /\ UNCHANGED <<providers, pendingStates, timers, nextState, encKey, dbProviders,
                 accounts, consumed, timerFired>>

\* !response.ok: updateSyncStatus(accountId, 'error', 'Token refresh failed')
RtMarkError(r) ==
  /\ At(r, "rt_markError")
  /\ accounts' = UpdateSyncStatus(accounts, reqs[r].acct, "error", ErrRefresh)
  /\ reqs' = [reqs EXCEPT ![r] = Done([@ EXCEPT !.wrote = TRUE], "false", None, 0)]
  /\ UNCHANGED <<sweep, cipher, chronicler>>
  /\ UNCHANGED <<providers, pendingStates, timers, nextState, encKey, dbProviders,
                 consumed, timerFired>>

\* financialConnectedAccounts.update(accountId, {accessToken, refreshToken,
\* tokenExpiresAt}); a throw goes to the catch block
RtUpdate(r) ==
  /\ At(r, "rt_update")
  /\ LET rq == reqs[r]
         upd == Update(accounts, rq.acct,
                       [accessToken |-> rq.tok.access_token,
                        refreshToken |-> rq.tok.refresh_token,
                        tokenExpiresAt |-> TokenExpiresAt(rq.tok.expires_in)],
                       encKey)
     IN  IF ~upd.ok
         THEN /\ reqs' = [reqs EXCEPT ![r] = [rq EXCEPT !.pc = "rt_catch",
                                                        !.result.err = upd.err]]
              /\ UNCHANGED accounts
         ELSE /\ accounts' = upd.accts
              /\ reqs' = [reqs EXCEPT ![r] = [rq EXCEPT !.wrote = TRUE, !.tok = NoTok,
                                                        !.pc = "rt_markSuccess"]]
  /\ UNCHANGED <<sweep, cipher, chronicler>>
  /\ UNCHANGED <<providers, pendingStates, timers, nextState, encKey, dbProviders,
                 consumed, timerFired>>

\* updateSyncStatus(accountId, 'success'); return true
RtMarkSuccess(r) ==
  /\ At(r, "rt_markSuccess")
  /\ accounts' = UpdateSyncStatus(accounts, reqs[r].acct, "success", None)
  /\ reqs' = [reqs EXCEPT ![r] = Done(@, "true", None, 0)]
  /\ UNCHANGED <<sweep, cipher, chronicler>>
  /\ UNCHANGED <<providers, pendingStates, timers, nextState, encKey, dbProviders,
                 consumed, timerFired>>

RtCatchMutRethrow(r) ==
  /\ At(r, "rt_catch")
  /\ reqs' = [reqs EXCEPT ![r] = Done(@, "throw", @.result.err, 0)]
  /\ UNCHANGED <<providers, pendingStates, timers, nextState, encKey, dbProviders,
                 accounts, consumed, timerFired, sweep, cipher, chronicler>>

\* catch: updateSyncStatus(accountId, 'error', error.message); return false
RtCatch(r) ==
  /\ At(r, "rt_catch")
  /\ accounts' = UpdateSyncStatus(accounts, reqs[r].acct, "error", reqs[r].result.err)
  /\ reqs' = [reqs EXCEPT ![r] = Done([@ EXCEPT !.wrote = TRUE], "false", @.result.err, 0)]
  /\ UNCHANGED <<sweep, cipher, chronicler>>
  /\ UNCHANGED <<providers, pendingStates, timers, nextState, encKey, dbProviders,
                 consumed, timerFired>>

\* ---- revokeAccess ----
\* call: getAccountWithTokens is awaited first
RevokeAccessCall(r, accountId, userId) ==
  /\ Free(r)
  /\ reqs' = [reqs EXCEPT ![r] = [Idle EXCEPT !.op = "revokeAccess", !.acct = accountId,
                                              !.user = userId, !.pc = "rv_getAccount"]]
  /\ UNCHANGED <<sweep, cipher, chronicler>>
  /\ UNCHANGED <<providers, pendingStates, timers, nextState, encKey, dbProviders,
                 accounts, consumed, timerFired>>

\* getAccountWithTokens resolves (no row: return false) or throws
RvGetAccount(r) ==
  /\ At(r, "rv_getAccount")
  /\ LET rq == reqs[r]
     IN  reqs' = [reqs EXCEPT ![r] =
           IF ~FindByIdAndUserId(accounts, rq.acct, rq.user)
           THEN Done(rq, "false", None, 0)
           ELSE LET dec == DecryptTokens(accounts[rq.acct], encKey)
                    f == [rq EXCEPT !.found = TRUE, !.provider = accounts[rq.acct].provider_id]
                IN  IF ~dec.ok THEN [f EXCEPT !.pc = "rv_catch", !.result.err = ErrDecrypt]
                    ELSE [f EXCEPT !.pc = "rv_findProvider"]]
  /\ UNCHANGED <<sweep, cipher, chronicler>>
  /\ UNCHANGED <<providers, pendingStates, timers, nextState, encKey, dbProviders,
                 accounts, consumed, timerFired>>

\* where revokeAccess goes once financialProviders.findById has resolved:
\* no provider row: return false; no configuration with a revokeUrl:
\* deactivate only; else call the provider
RvAfterFindProviderMutDeactivate(rq, db, configured) ==
  IF ~ProviderFind(db, rq.provider) \/ rq.provider \notin configured
  THEN [rq EXCEPT !.pc = "rv_deactivate"]
  ELSE [rq EXCEPT !.pc = "rv_fetch"]

RvAfterFindProvider(rq, db, configured) ==
  IF ~ProviderFind(db, rq.provider) THEN Done(rq, "false", None, 0)
  ELSE IF rq.provider \notin configured THEN [rq EXCEPT !.pc = "rv_deactivate"]
  ELSE [rq EXCEPT !.pc = "rv_fetch"]

RvFindProvider(r) ==
  /\ At(r, "rv_findProvider")
  /\ reqs' = [reqs EXCEPT ![r] = RvAfterFindProvider(@, dbProviders, providers)]
  /\ UNCHANGED <<sweep, cipher, chronicler>>
  /\ UNCHANGED <<providers, pendingStates, timers, nextState, encKey, dbProviders,
                 accounts, consumed, timerFired>>

\* POST revokeUrl: the provider answers (ok or not) or the fetch rejects
RvFetch(r) ==
  /\ At(r, "rv_fetch")
  /\ \/ \E status \in {"ok", "notok"} :
          reqs' = [reqs EXCEPT ![r] =
             [@ EXCEPT !.fetched = TRUE, !.remote = status, !.pc = "rv_deactivate"]]
     \/ reqs' = [reqs EXCEPT ![r] =
             [@ EXCEPT !.fetched = TRUE, !.remote = "rejected", !.pc = "rv_catch",
                       !.result.err = ErrFetch]]
  /\ UNCHANGED <<sweep, cipher, chronicler>>
  /\ UNCHANGED <<providers, pendingStates, timers, nextState, encKey, dbProviders,
                 accounts, consumed, timerFired>>

\* what revokeAccess returns after the try block's deactivation
RevokeReturnMutByStatus(remote) == IF remote = "ok" THEN "true" ELSE "false"

RevokeReturn(remote) == "true"

\* deactivateByIdAndUserId in the try block (with or without a revoke call)
RvDeactivate(r) ==
  /\ At(r, "rv_deactivate")
  /\ accounts' = DeactivateByIdAndUserId(accounts, reqs[r].acct, reqs[r].user)
  /\ reqs' = [reqs EXCEPT ![r] =
        Done([@ EXCEPT !.wrote = TRUE], RevokeReturn(@.remote), None, 0)]
  /\ UNCHANGED <<sweep, cipher, chronicler>>
  /\ UNCHANGED <<providers, pendingStates, timers, nextState, encKey, dbProviders,
                 consumed, timerFired>>

\* catch: deactivateByIdAndUserId; return false
RvCatch(r) ==
  /\ At(r, "rv_catch")
  /\ accounts' = DeactivateByIdAndUserId(accounts, reqs[r].acct, reqs[r].user)
  /\ reqs' = [reqs EXCEPT ![r] = Done([@ EXCEPT !.wrote = TRUE], "false", @.result.err, 0)]
  /\ UNCHANGED <<sweep, cipher, chronicler>>
  /\ UNCHANGED <<providers, pendingStates, timers, nextState, encKey, dbProviders,
                 consumed, timerFired>>

\* ---- environment ----
\* ENCRYPTION_KEY is read at every encrypt/decrypt; the deployment may
\* replace it with another key
SetEncryptionKey(k) ==
  /\ NoneDone
  /\ k # encKey
  /\ encKey' = k
  /\ UNCHANGED <<sweep, cipher, chronicler>>
  /\ UNCHANGED <<providers, pendingStates, timers, nextState, dbProviders,
                 accounts, reqs, consumed, timerFired>>

\* FinancialProviderRepository.deactivate
DeactivateProvider(p) ==
  /\ NoneDone
  /\ dbProviders[p]
  /\ dbProviders' = [dbProviders EXCEPT ![p] = FALSE]
  /\ UNCHANGED <<sweep, cipher, chronicler>>
  /\ UNCHANGED <<providers, pendingStates, timers, nextState, encKey,
                 accounts, reqs, consumed, timerFired>>

\* ---- GET /callback/:provider ----
\* the error query parameter a provider sends when the user denies access
ProviderErrors == {"access_denied"}
ErrAuth == "Authentication required"
ErrMissing == "Missing authorization code or state"
ErrConnection == "Connection failed"

\* the request passes the authentication middleware and the two parameter
\* checks of the handler, or is answered at once: [ret, err] of the answer
CallbackReject(authed, error, code, state) ==
  IF ~authed THEN [ret |-> "json401", err |-> ErrAuth]
  ELSE IF error # None THEN [ret |-> "redirect", err |-> error]
  ELSE IF code = None \/ state = 0 THEN [ret |-> "redirect", err |-> ErrMissing]
  ELSE [ret |-> "pass", err |-> None]

\* the request arrives: answered at once, or handleCallback is called with
\* the redirect URI built from the path parameter
GetCallback(r, authed, error, code, state, uri) ==
  LET rej == CallbackReject(authed, error, code, state)
  IN  \/ /\ rej.ret # "pass"
         /\ Free(r)
         /\ reqs' = [reqs EXCEPT ![r] =
               Done([Idle EXCEPT !.op = "getCallback"], rej.ret, rej.err, 0)]
         /\ UNCHANGED <<providers, pendingStates, timers, nextState, encKey,
                        dbProviders, accounts, consumed, timerFired, sweep, cipher, chronicler>>
      \/ /\ rej.ret = "pass"
         /\ HandleCallbackCall(r, code, state, uri)

\* the response of the callback endpoint to a settled request: a JSON body,
\* or a redirect to the front end with success=true and accountId or with
\* an error parameter
CallbackResponse(rq) ==
  IF rq.op = "getCallback"
  THEN IF rq.result.ret = "redirect"
       THEN [kind |-> "redirect", success |-> FALSE, accountId |-> 0, error |-> rq.result.err]
       ELSE [kind |-> "json", success |-> FALSE, accountId |-> 0, error |-> rq.result.err]
  ELSE IF rq.result.ret = "true"
  THEN [kind |-> "redirect", success |-> TRUE, accountId |-> rq.result.id, error |-> None]
  ELSE IF rq.result.ret = "false"
  THEN [kind |-> "redirect", success |-> FALSE, accountId |-> 0,
        error |-> IF rq.result.err # None THEN rq.result.err ELSE ErrConnection]
  ELSE [kind |-> "redirect", success |-> FALSE, accountId |-> 0, error |-> ErrConnection]

\* ---- POST /accounts/:id/sync ----
\* the handler awaits updateSyncStatus(accountId, 'syncing')
SyncCall(r, accountId, userId) ==
  /\ Free(r)
  /\ reqs' = [reqs EXCEPT ![r] = [Idle EXCEPT !.op = "sync", !.acct = accountId,
                                              !.user = userId, !.pc = "sy_markSyncing"]]
  /\ UNCHANGED <<sweep, cipher, chronicler>>
  /\ UNCHANGED <<providers, pendingStates, timers, nextState, encKey, dbProviders,
                 accounts, consumed, timerFired>>

\* the first update is applied; the handler waits out its one-second timer
SyMarkSyncing(r) ==
  /\ At(r, "sy_markSyncing")
  /\ accounts' = UpdateSyncStatus(accounts, reqs[r].acct, "syncing", None)
  /\ reqs' = [reqs EXCEPT ![r] = [@ EXCEPT !.pc = "sy_markSuccess",
                                           !.wrote = accounts' # accounts]]
  /\ UNCHANGED <<sweep, cipher, chronicler>>
  /\ UNCHANGED <<providers, pendingStates, timers, nextState, encKey, dbProviders,
                 consumed, timerFired>>

\* the timer has fired and updateSyncStatus(accountId, 'success') is applied:
\* 200 {success: true}
SyMarkSuccess(r) ==
  /\ At(r, "sy_markSuccess")
  /\ accounts' = UpdateSyncStatus(accounts, reqs[r].acct, "success", None)
  /\ reqs' = [reqs EXCEPT ![r] =
       Done([@ EXCEPT !.wrote = @ \/ accounts' # accounts], "200", None, 0)]
  /\ UNCHANGED <<sweep, cipher, chronicler>>
  /\ UNCHANGED <<providers, pendingStates, timers, nextState, encKey, dbProviders,
                 consumed, timerFired>>

\* ---- GET /accounts/:id ----
GetAccountCall(r, accountId, userId) ==
  /\ Free(r)
  /\ reqs' = [reqs EXCEPT ![r] = [Idle EXCEPT !.op = "getAccount", !.acct = accountId,
                                              !.user = userId, !.pc = "ga_find"]]
  /\ UNCHANGED <<sweep, cipher, chronicler>>
  /\ UNCHANGED <<providers, pendingStates, timers, nextState, encKey, dbProviders,
                 accounts, consumed, timerFired>>

\* findByIdAndUserId resolves: 404 without a row, else the formatted account
GaFind(r) ==
  /\ At(r, "ga_find")
  /\ reqs' = [reqs EXCEPT ![r] =
       IF ~FindByIdAndUserId(accounts, @.acct, @.user)
       THEN Done(@, "404", None, 0)
       ELSE Done([@ EXCEPT !.found = TRUE], "200", None, @.acct)]
  /\ UNCHANGED <<sweep, cipher, chronicler>>
  /\ UNCHANGED <<providers, pendingStates, timers, nextState, encKey, dbProviders,
                 accounts, consumed, timerFired>>

\* ---- PATCH /accounts/:id ----
\* the body carries accountName or no allowed field (400)
PatchAccountCall(r, accountId, userId, accountName) ==
  /\ Free(r)
  /\ LET rq == [Idle EXCEPT !.op = "patchAccount", !.acct = accountId,
                            !.user = userId, !.info = accountName]
     IN  reqs' = [reqs EXCEPT ![r] =
           IF accountName = None THEN Done(rq, "400", None, 0)
           ELSE [rq EXCEPT !.pc = "pa_update"]]
  /\ UNCHANGED <<sweep, cipher, chronicler>>
  /\ UNCHANGED <<providers, pendingStates, timers, nextState, encKey, dbProviders,
                 accounts, consumed, timerFired>>

\* updateByIdAndUserId(accountId, user.id, {accountName}) resolves with the
\* row (200), with nothing (404), or throws (500)
PaUpdate(r) ==
  /\ At(r, "pa_update")
  /\ LET rq == reqs[r]
         upd == UpdateByIdAndUserId(accounts, rq.acct, rq.user,
                  [accessToken |-> None, refreshToken |-> None,
                   accountName |-> rq.info], encKey)
     IN  /\ accounts' = upd.accts
         /\ reqs' = [reqs EXCEPT ![r] =
              IF ~upd.ok THEN Done(rq, "500", upd.err, 0)
              ELSE IF upd.rows = {} THEN Done(rq, "404", None, 0)
              ELSE Done([rq EXCEPT !.found = TRUE, !.wrote = TRUE], "200", None, rq.acct)]
  /\ UNCHANGED <<sweep, cipher, chronicler>>
  /\ UNCHANGED <<providers, pendingStates, timers, nextState, encKey, dbProviders,
                 consumed, timerFired>>


\* ---- refreshExpiringTokens ----
\* findAccountsNeedingRefresh: active, expiring inside the window, with a
\* refresh token, not in error
FindAccountsNeedingRefresh(accts) ==
  {i \in 1..Len(accts) : /\ accts[i].is_active
                         /\ accts[i].token_expires_at = "soon"
                         /\ accts[i].encrypted_refresh_token # NoBlob
                         /\ accts[i].sync_status # "error"}

\* time passes: the access token of account i comes within ten minutes of
\* its expiry
TokenNearsExpiry(i) ==
  /\ i \in 1..Len(accounts)
  /\ accounts[i].token_expires_at = "later"
  /\ accounts' = [accounts EXCEPT ![i].token_expires_at = "soon"]
  /\ UNCHANGED <<providers, pendingStates, timers, nextState, encKey, dbProviders,
                 reqs, consumed, timerFired, sweep, cipher, chronicler>>

\* call: findAccountsNeedingRefresh is awaited first
RefreshExpiringTokensCall ==
  /\ sweep.pc = "idle"
  /\ sweep' = [NoSweep EXCEPT !.pc = "sw_select"]
  /\ UNCHANGED <<providers, pendingStates, timers, nextState, encKey, dbProviders,
                 accounts, reqs, consumed, timerFired, cipher, chronicler>>

\* accounts.map(account => this.refreshToken(account.id, account.user_id)):
\* the accounts whose refreshToken call is started
StartedMutFirstOnly(selected) ==
  IF selected = {} THEN {} ELSE {CHOOSE i \in selected : \A j \in selected : i <= j}

Started(selected) == selected

\* the slot account i's refreshToken call runs in: the k-th started account
\* takes slot k
SlotOf(started, i) == Cardinality({j \in started : j <= i})

\* the query resolves: refreshToken is called for the selected accounts, each
\* call runs up to its first await, and Promise.allSettled awaits them all
SwSelect ==
  /\ sweep.pc = "sw_select"
  /\ \A r \in Reqs : reqs[r].pc = "idle"
  /\ LET selected == FindAccountsNeedingRefresh(accounts)
         started == Started(selected)
     IN  /\ Cardinality(selected) <= Cardinality(Reqs)
         /\ sweep' = [sweep EXCEPT !.pc = "sw_allSettled", !.selected = selected,
                                   !.children = {SlotOf(started, i) : i \in started}]
         /\ reqs' = [r \in Reqs |->
               IF \E i \in started : SlotOf(started, i) = r
               THEN LET i == CHOOSE i \in started : SlotOf(started, i) = r
                    IN  [Idle EXCEPT !.op = "refreshToken", !.acct = i,
                                     !.user = accounts[i].user_id,
                                     !.pc = "rt_getAccount"]
               ELSE reqs[r]]
  /\ UNCHANGED <<providers, pendingStates, timers, nextState, encKey, dbProviders,
                 accounts, consumed, timerFired, cipher, chronicler>>

\* one of the refreshToken promises settles; refreshToken never rejects here
SwSettle(r) ==
  /\ sweep.pc = "sw_allSettled"
  /\ r \in sweep.children
  /\ reqs[r].pc = "done"
  /\ sweep' = [sweep EXCEPT
       !.children = @ \ {r},
       !.succeeded = IF reqs[r].result.ret = "true" THEN @ \cup {reqs[r].acct} ELSE @,
       !.failed = IF reqs[r].result.ret = "true" THEN @ ELSE @ \cup {reqs[r].acct}]
  /\ reqs' = [reqs EXCEPT ![r] = Idle]
  /\ UNCHANGED <<providers, pendingStates, timers, nextState, encKey, dbProviders,
                 accounts, consumed, timerFired, cipher, chronicler>>

\* every promise has settled: allSettled resolves and the sweep logs its count
SwAllSettled ==
  /\ sweep.pc = "sw_allSettled"
  /\ sweep.children = {}
  /\ sweep' = [sweep EXCEPT !.pc = "done"]
  /\ UNCHANGED <<providers, pendingStates, timers, nextState, encKey, dbProviders,
                 accounts, reqs, consumed, timerFired, cipher, chronicler>>

\* the scheduler receives the resolved promise
SwReturn ==
  /\ sweep.pc = "done"
  /\ sweep' = NoSweep
  /\ UNCHANGED <<providers, pendingStates, timers, nextState, encKey, dbProviders,
                 accounts, reqs, consumed, timerFired, cipher, chronicler>>

\* the caller receives the settled promise's outcome
Return(r) ==
  /\ reqs[r].pc = "done"
  /\ r \notin sweep.children
  /\ reqs' = [reqs EXCEPT ![r] = Idle]
  /\ UNCHANGED <<sweep, cipher, chronicler>>
  /\ UNCHANGED <<providers, pendingStates, timers, nextState, encKey, dbProviders,
                 accounts, consumed, timerFired>>

\* the process restarts: the constructor reads the provider credentials from
\* the environment again; the in-memory map, the timers and the requests in
\* flight are gone, the database stays
Restart(configured) ==
  /\ NoneDone
  /\ providers' = configured
  /\ pendingStates' = [s \in StateIds |-> NoOAuth]
  /\ timers' = {}
  /\ reqs' = [r \in Reqs |-> Idle]
  /\ UNCHANGED <<sweep, cipher, chronicler>>
  /\ UNCHANGED <<nextState, encKey, dbProviders, accounts, consumed, timerFired>>

\* ---- specifications ----
\* a connect or callback request arrives on slot r; U and P are the users
\* and providers that connect accounts
CallConnect(r, U, P) ==
  \/ \E u \in U, p \in P : GenerateAuthUrlCall(r, u, p)
  \/ \E c \in Codes, s \in StateIds, u \in RedirectUris : HandleCallbackCall(r, c, s, u)

\* a refresh or disconnect request arrives on slot r, for an existing
\* account id or the next, unknown one
CallAccount(r, U) ==
  \/ \E a \in 1..(Len(accounts) + 1), u \in U : RefreshTokenCall(r, a, u)
  \/ \E a \in 1..(Len(accounts) + 1), u \in U : RevokeAccessCall(r, a, u)

\* an await of the connection flow resolves
FlowStep(r) ==
  \/ GenFindByName(r)
  \/ HcFindProvider(r)
  \/ HcExchange(r)
  \/ HcAccountInfo(r)
  \/ HcCreate(r)
  \/ Return(r)

\* an await of refreshToken or revokeAccess resolves
AccountStep(r) ==
  \/ RtGetAccount(r)
  \/ RtFindProvider(r)
  \/ RtFetch(r)
  \/ RtMarkError(r)
  \/ RtUpdate(r)
  \/ RtMarkSuccess(r)
  \/ RtCatch(r)
  \/ RvGetAccount(r)
  \/ RvFindProvider(r)
  \/ RvFetch(r)
  \/ RvDeactivate(r)
  \/ RvCatch(r)

\* the whole lifecycle of one user's Schwab connection, one request at a
\* time, with the environment changing underneath
Next ==
  \/ CallConnect(1, {"u1"}, {"schwab"})
  \/ CallAccount(1, Users)
  \/ \E r \in Reqs : FlowStep(r)
  \/ \E r \in Reqs : AccountStep(r)
  \/ \E cfg \in Configurations : Restart(cfg)
  \/ \E k \in Keys : SetEncryptionKey(k)
  \/ DeactivateProvider("schwab")

Spec == Init /\ [][Next]_vars

\* the connection flow with requests racing: connect and callback requests
\* on every slot, and the expiry timers
NextFlow ==
  \/ \E r \in Reqs : CallConnect(r, {"u1"}, ProviderNames)
  \/ \E r \in Reqs : FlowStep(r)
  \/ \E s \in StateIds : TimerFire(s)

SpecFlow == Init /\ [][NextFlow]_vars

\* callbacks, refreshes and disconnects of one external account racing
NextRace ==
  \/ \E r \in Reqs : CallConnect(r, {"u1"}, {"schwab"})
  \/ \E r \in Reqs : CallAccount(r, {"u1"})
  \/ \E r \in Reqs : FlowStep(r)
  \/ \E r \in Reqs : AccountStep(r)

SpecRace == Init /\ [][NextRace]_vars

\* names a PATCH body may carry for the account
AccountNames == {"savings"}

\* a request for one account arrives on slot r through any of the five
\* account routes
CallRoute(r, U) ==
  \/ CallAccount(r, U)
  \/ \E a \in 1..(Len(accounts) + 1), u \in U : SyncCall(r, a, u)
  \/ \E a \in 1..(Len(accounts) + 1), u \in U : GetAccountCall(r, a, u)
  \/ \E a \in 1..(Len(accounts) + 1), u \in U, n \in AccountNames \cup {None} :
        PatchAccountCall(r, a, u, n)

\* an await of the sync, GET or PATCH handler resolves
RouteStep(r) ==
  \/ SyMarkSyncing(r)
  \/ SyMarkSuccess(r)
  \/ GaFind(r)
  \/ PaUpdate(r)

\* the account routes, one request at a time, on accounts one user connects
NextRoutes ==
  \/ CallConnect(1, {"u1"}, {"schwab"})
  \/ CallRoute(1, Users)
  \/ \E r \in Reqs : FlowStep(r)
  \/ \E r \in Reqs : AccountStep(r)
  \/ \E r \in Reqs : RouteStep(r)

SpecRoutes == Init /\ [][NextRoutes]_vars

\* an await of refreshToken resolves
RefreshStep(r) ==
  \/ RtGetAccount(r)
  \/ RtFindProvider(r)
  \/ RtFetch(r)
  \/ RtMarkError(r)
  \/ RtUpdate(r)
  \/ RtMarkSuccess(r)
  \/ RtCatch(r)

\* the periodic sweep over the accounts one user connects at both providers
NextSweep ==
  \/ CallConnect(1, {"u1"}, ProviderNames)
  \/ \E r \in Reqs : FlowStep(r)
  \/ \E i \in 1..MaxStates : TokenNearsExpiry(i)
  \/ RefreshExpiringTokensCall
  \/ SwSelect
  \/ \E r \in Reqs : RefreshStep(r)
  \/ \E r \in Reqs : SwSettle(r)
  \/ SwAllSettled
  \/ SwReturn

SpecSweep == Init /\ [][NextSweep]_vars

\* the callback endpoint, one request at a time, with every shape of query
NextCallback ==
  \/ \E p \in ProviderNames : GenerateAuthUrlCall(1, "u1", p)
  \/ \E authed \in BOOLEAN, error \in ProviderErrors \cup {None},
        code \in Codes \cup {None}, state \in StateIds \cup {0}, uri \in RedirectUris :
        GetCallback(1, authed, error, code, state, uri)
  \/ \E r \in Reqs : FlowStep(r)

SpecCallback == Init /\ [][NextCallback]_vars

\* ---- one encrypt / decrypt round ----
\* the strings handed to encrypt: at most MaxPlain characters
Plaintexts == StringsUpTo(MaxPlain)

\* encrypt(plaintext) returns or throws
CipherEncrypt(iv) ==
  /\ cipher.pc = "input"
  /\ LET e == encrypt(cipher.plaintext, cipher.key, iv)
     IN  cipher' = IF e.ok
                   THEN [cipher EXCEPT !.pc = "encrypted", !.orig = e.data, !.data = e.data]
                   ELSE [cipher EXCEPT !.pc = "thrown", !.out = [NoOut EXCEPT !.err = e.err]]
  /\ UNCHANGED <<providers, pendingStates, timers, nextState, encKey, dbProviders,
                 accounts, reqs, consumed, timerFired, sweep, chronicler>>

\* one edit of a hex string: a character replaced, characters appended, or
\* the string emptied
Edits(text) ==
  ({[text EXCEPT ![i] = d] : i \in 1..Len(text),
                             d \in {HexDigits[n] : n \in 1..Len(HexDigits)} \cup {Junk}}
   \cup {text \o <<Junk, Junk>>, Append(text, HexDigits[1]), <<>>}) \ {text}

\* the stored value with one of its three fields altered or missing
Alterations(data) ==
  LET tags == {Mac(k, iv, AAD, FromHex(data.encrypted)) :
                  k \in Keys, iv \in Ivs \cup {<<>>}}
              \cup {Mac(data.tag.key, data.tag.iv, AAD, <<>>), NoTag}
  IN  {[data EXCEPT !.encrypted = t] : t \in Edits(data.encrypted)}
      \cup {[data EXCEPT !.iv = t] : t \in Edits(data.iv)}
      \cup {[data EXCEPT !.tag = t] : t \in tags \ {data.tag}}

\* the stored value is altered before it is read back
CipherAlter ==
  /\ cipher.pc = "encrypted"
  /\ \E d \in Alterations(cipher.data) : cipher' = [cipher EXCEPT !.pc = "altered", !.data = d]
  /\ UNCHANGED <<providers, pendingStates, timers, nextState, encKey, dbProviders,
                 accounts, reqs, consumed, timerFired, sweep, chronicler>>

\* decrypt(encryptedData) returns or throws
CipherDecrypt ==
  /\ cipher.pc \in {"encrypted", "altered"}
  /\ LET dd == decrypt(cipher.data, cipher.key)
     IN  cipher' = [cipher EXCEPT !.pc = "decrypted",
                                  !.out = [ok |-> dd.ok, text |-> dd.text, err |-> dd.err]]
  /\ UNCHANGED <<providers, pendingStates, timers, nextState, encKey, dbProviders,
                 accounts, reqs, consumed, timerFired, sweep, chronicler>>

\* every plaintext under every key configuration, encrypted, possibly
\* altered, and decrypted under the same configuration
InitCipher ==
  /\ InitService
  /\ \E p \in Plaintexts, k \in KeyConfigs :
        cipher = [NoCipher EXCEPT !.pc = "input", !.plaintext = p, !.key = k]
  /\ InitChronicler

NextCipher ==
  \/ \E iv \in Ivs : CipherEncrypt(iv)
  \/ CipherAlter
  \/ CipherDecrypt

SpecCipher == InitCipher /\ [][NextCipher]_vars

\* the sweep over one account while the provider's row may be deactivated
NextSweepOne ==
  \/ CallConnect(1, {"u1"}, {"schwab"})
  \/ \E r \in Reqs : FlowStep(r)
  \/ \E i \in 1..MaxStates : TokenNearsExpiry(i)
  \/ RefreshExpiringTokensCall
  \/ SwSelect
  \/ \E r \in Reqs : RefreshStep(r)
  \/ \E r \in Reqs : SwSettle(r)
  \/ SwAllSettled
  \/ SwReturn
  \/ DeactivateProvider("schwab")

SpecSweepOne == Init /\ [][NextSweepOne]_vars

\* the connection flow of both users with both providers, one request at a time
NextOwner ==
  \/ CallConnect(1, Users, ProviderNames)
  \/ \E r \in Reqs : FlowStep(r)
  \/ \E s \in StateIds : TimerFire(s)

SpecOwner == Init /\ [][NextOwner]_vars

\* the connection flow in a process that keeps running: a timer that is armed
\* fires once its ten minutes are over, whatever requests come and go, and a
\* settled promise is delivered to its caller
NextExpiry ==
  \/ CallConnect(1, {"u1"}, {"schwab"})
  \/ \E r \in Reqs : FlowStep(r)
  \/ \E s \in StateIds : TimerFire(s)

SpecExpiry ==
  /\ Init /\ [][NextExpiry]_vars
  /\ \A s \in StateIds : SF_vars(TimerFire(s))
  /\ \A r \in Reqs : WF_vars(Return(r))

\* the job repositories: markAsFailed calls racing on the job of each table,
\* whatever max_retries the job was created with
InitJobs ==
  /\ InitService /\ cipher = NoCipher
  /\ jobs \in [Tables -> {NewJob(m) : m \in 1..MaxRetries}]
  /\ jobCalls = [c \in Calls |-> NoJobCall]
  /\ failures = [t \in Tables |-> 0]
  /\ subscriptions = <<>>
  /\ subCalls = [c \in Calls |-> NoSubCall]

NextJobs ==
  \/ \E c \in Calls, t \in Tables, id \in JobIds, shouldRetry \in BOOLEAN :
        MarkAsFailedCall(c, t, id, shouldRetry)
  \/ \E c \in Calls : MfFindById(c)
  \/ \E c \in Calls : MfUpdate(c)
  \/ \E t \in Tables : MarkAsRunning(t)
  \/ \E t \in Tables : MarkAsCompleted(t)

SpecJobs == InitJobs /\ [][NextJobs]_vars

\* the subscriptions of two users to one feed, two calls at a time
NextSubscriptions ==
  \/ \E c \in Calls, u \in Users, f \in Feeds, n \in CustomNames \cup {None},
        e \in NotificationOptions : SubscribeCall(c, u, f, n, e)
  \/ \E c \in Calls : SbFind(c)
  \/ \E c \in Calls : SbUpdate(c)
  \/ \E c \in Calls : SbCreate(c)
  \/ \E u \in Users, f \in Feeds : Unsubscribe(u, f)

SpecSubscriptions == Init /\ [][NextSubscriptions]_vars

TypeOK ==
  /\ nextState \in 1..(MaxStates + 1)
  /\ Len(accounts) <= MaxStates

\* ---- properties ----
\* request r has settled as a call of op
Finished(r, op) == reqs[r].op = op /\ reqs[r].pc = "done"

\* this step is the arrival of handleCallback(code, s, uri) on slot r
CallbackArrives(r, s) ==
  /\ reqs[r].pc = "idle"
  /\ reqs'[r].op = "handleCallback"
  /\ reqs'[r].state = s

\* C1: a state issued by generateAuthUrl is consumed exactly once: the first
\* handleCallback with it passes the state validation and removes the entry,
\* every later handleCallback with it ends at once with the invalid-state error.
C1_StateConsumedOnce ==
  [][\A r \in Reqs, s \in StateIds :
       CallbackArrives(r, s) =>
         /\ (pendingStates[s] # NoOAuth /\ consumed[s] = 0) =>
               /\ reqs'[r].oauth = pendingStates[s]
               /\ reqs'[r].result.err # ErrInvalidState
               /\ pendingStates'[s] = NoOAuth
               /\ consumed'[s] = 1
         /\ consumed[s] >= 1 =>
               /\ reqs'[r].pc = "done"
               /\ reqs'[r].result = [ret |-> "false", err |-> ErrInvalidState, id |-> 0]
               /\ consumed'[s] = consumed[s]]_vars

\* a replayed callback has been rejected: the state was consumed, its timer
\* has not fired, and a later handleCallback with it failed
C1_Witness ==
  \E r \in Reqs, s \in StateIds :
     /\ Finished(r, "handleCallback") /\ reqs[r].state = s
     /\ reqs[r].result.err = ErrInvalidState
     /\ consumed[s] = 1 /\ ~timerFired[s]

\* the handleCallback requests that hold the pending authorization of state s
Holders(s) ==
  {r \in Reqs : reqs[r].op = "handleCallback" /\ reqs[r].state = s
                /\ reqs[r].oauth # NoOAuth}

\* C2: when handleCallback requests race on one state, at most one of them
\* obtains the pending authorization record and goes on to the token exchange.
C2_AtMostOneHolder ==
  \A s \in StateIds : consumed[s] <= 1 /\ Cardinality(Holders(s)) <= 1

\* two callbacks with the same state are in flight together: one holds the
\* record and waits on an await, the other was turned away
C2_Witness ==
  \E r, q \in Reqs, s \in StateIds :
     /\ r # q
     /\ reqs[r].op = "handleCallback" /\ reqs[r].state = s
     /\ reqs[r].pc \in {"hc_findProvider", "hc_exchange", "hc_accountInfo", "hc_create"}
     /\ Finished(q, "handleCallback") /\ reqs[q].state = s
     /\ reqs[q].result.err = ErrInvalidState

\* C3: once the expiry timer of a state has fired, a handleCallback with that
\* state fails with the invalid-state error and creates no ConnectedAccount.
C3_ExpiredStateRejected ==
  [][\A r \in Reqs, s \in StateIds :
       (timerFired[s] /\ CallbackArrives(r, s)) =>
          /\ reqs'[r].pc = "done"
          /\ reqs'[r].result = [ret |-> "false", err |-> ErrInvalidState, id |-> 0]
          /\ ~reqs'[r].wrote
          /\ accounts' = accounts]_vars

\* a state expired unconsumed and a callback carrying it was rejected
C3_Witness ==
  \E r \in Reqs, s \in StateIds :
     /\ timerFired[s] /\ consumed[s] = 0 /\ s < nextState
     /\ Finished(r, "handleCallback") /\ reqs[r].state = s
     /\ reqs[r].result.err = ErrInvalidState

\* C4: a handleCallback whose redirect URI differs from the recorded one ends
\* with the redirect-mismatch error, without calling the provider and without
\* creating a ConnectedAccount.
C4_RedirectMismatch ==
  \A r \in Reqs :
     (/\ reqs[r].op = "handleCallback"
      /\ reqs[r].oauth # NoOAuth
      /\ reqs[r].oauth.redirectUri # reqs[r].uri) =>
        /\ reqs[r].pc = "done"
        /\ reqs[r].result = [ret |-> "false", err |-> ErrRedirect, id |-> 0]
        /\ ~reqs[r].fetched
        /\ ~reqs[r].wrote

C4_Witness ==
  \E r \in Reqs :
     /\ Finished(r, "handleCallback")
     /\ reqs[r].oauth # NoOAuth
     /\ reqs[r].oauth.redirectUri # reqs[r].uri
     /\ reqs[r].result.err = ErrRedirect

\* the rows that handleCallback request r, about to insert, collides with
Matching(r) ==
  UniqueConflicts(accounts, reqs[r].oauth.userId, reqs[r].oauth.providerId, reqs[r].info)

\* C5: reconnecting an external account whose row revokeAccess deactivated
\* makes handleCallback succeed by reactivating and updating that row
\* (is_active true, tokens replaced) instead of inserting a duplicate.
C5_ReconnectReactivates ==
  [][\A r \in Reqs :
       (/\ reqs[r].pc = "hc_create" /\ reqs'[r].pc = "done"
        /\ reqs[r].tok.access_token # None
        /\ \E i \in Matching(r) : ~accounts[i].is_active) =>
          /\ reqs'[r].result.ret = "true"
          /\ Len(accounts') = Len(accounts)
          /\ \A i \in Matching(r) :
                /\ accounts'[i].is_active
                /\ accounts'[i].encrypted_access_token =
                     Encrypt(reqs[r].tok.access_token, encKey).blob]_vars

\* C6: revokeAccess on an account the user owns leaves it with
\* is_active = false on every path.
C6_RevokeAlwaysDeactivates ==
  \A r \in Reqs :
     (Finished(r, "revokeAccess") /\ reqs[r].found) => ~accounts[reqs[r].acct].is_active

\* C7 (as stated): revokeAccess returns true only when the provider's revoke
\* endpoint answered with a success status, and false when it answered with a
\* non-success status or the call failed.
C7_ReturnsRemoteSuccess ==
  \A r \in Reqs :
     Finished(r, "revokeAccess") =>
        /\ reqs[r].result.ret = "true" => reqs[r].remote = "ok"
        /\ reqs[r].remote \in {"notok", "rejected"} => reqs[r].result.ret = "false"

\* C7 (amended): revokeAccess returns true exactly when its try block ran to
\* the end: the provider answered the revoke call, with a success or a
\* non-success status alike, or no revoke endpoint is configured and the
\* account was deactivated without a call; it returns false when the account
\* or the provider row is not found, the tokens fail to decrypt or the
\* revoke request itself fails.
C7_ReturnsTrueWhenAnswered ==
  \A r \in Reqs :
     Finished(r, "revokeAccess") =>
        (reqs[r].result.ret = "true" <=>
           \/ reqs[r].remote \in {"ok", "notok"}
           \/ reqs[r].remote = None /\ reqs[r].wrote /\ reqs[r].result.err = None)

\* the provider refused the revocation and revokeAccess still returned true
C7_Witness ==
  \E r \in Reqs :
     /\ Finished(r, "revokeAccess")
     /\ reqs[r].remote = "notok"
     /\ reqs[r].result.ret = "true"
     /\ ~accounts[reqs[r].acct].is_active

\* C8: handleCallback never throws: every outcome is a result with
\* success = false and an error message, or success = true with the id of a
\* ConnectedAccount row the call wrote.
C8_CallbackNeverThrows ==
  \A r \in Reqs :
     Finished(r, "handleCallback") =>
        /\ reqs[r].result.ret \in {"true", "false"}
        /\ reqs[r].result.ret = "false" => reqs[r].result.err # None
        /\ reqs[r].result.ret = "true" =>
              /\ reqs[r].wrote
              /\ reqs[r].result.id \in 1..Len(accounts)
              /\ accounts[reqs[r].result.id].user_id = reqs[r].oauth.userId

\* an exception thrown late in the flow, by the INSERT, came back as a result
C8_Witness ==
  \E r \in Reqs :
     /\ Finished(r, "handleCallback")
     /\ reqs[r].fetched
     /\ reqs[r].result = [ret |-> "false", err |-> ErrInsert, id |-> 0]

\* C9: no two ConnectedAccount rows share (user_id, provider_id,
\* external_account_id), whatever interleaving of handleCallback,
\* refreshToken and revokeAccess produced the table.
C9_UniqueAccounts ==
  \A i, j \in 1..Len(accounts) :
     (/\ accounts[i].user_id = accounts[j].user_id
      /\ accounts[i].provider_id = accounts[j].provider_id
      /\ accounts[i].external_account_id = accounts[j].external_account_id) => i = j

\* a callback for an account that is already stored, and that a refresh or a
\* disconnect has touched since, was rejected by the unique constraint
C9_Witness ==
  \E r \in Reqs :
     /\ Finished(r, "handleCallback")
     /\ reqs[r].conflict # 0
     /\ accounts[reqs[r].conflict].sync_status # "pending"

\* request r is a settled refreshToken on an account of the user that has
\* no stored refresh token
RefreshedWithoutToken(r) ==
  /\ Finished(r, "refreshToken")
  /\ reqs[r].found
  /\ accounts[reqs[r].acct].encrypted_refresh_token = NoBlob

\* C10 (as stated): refreshToken for an account with no stored refresh token
\* returns false, calls no provider and leaves the row unchanged.
C10_NoRefreshTokenRowUnchanged ==
  \A r \in Reqs :
     RefreshedWithoutToken(r) =>
        /\ reqs[r].result.ret = "false"
        /\ ~reqs[r].fetched
        /\ ~reqs[r].wrote

\* C10 (amended): refreshToken for an account with no stored refresh token
\* returns false and calls no provider; it leaves the row unchanged unless
\* the stored access token fails to decrypt, and then it sets sync_status
\* to 'error'.
C10_NoRefreshTokenNoCall ==
  \A r \in Reqs :
     RefreshedWithoutToken(r) =>
        /\ reqs[r].result.ret = "false"
        /\ ~reqs[r].fetched
        /\ reqs[r].result.err = None => ~reqs[r].wrote
        /\ reqs[r].wrote =>
              /\ reqs[r].result.err = ErrDecrypt
              /\ accounts[reqs[r].acct].sync_status = "error"

\* the refresh of an account without a refresh token ended without a write
C10_Witness ==
  \E r \in Reqs :
     /\ RefreshedWithoutToken(r)
     /\ reqs[r].result.ret = "false"
     /\ ~reqs[r].wrote

\* request r is a refreshToken or revokeAccess call on an existing account
\* of another user
Foreign(rq) ==
  /\ rq.op \in {"refreshToken", "revokeAccess"}
  /\ rq.acct \in 1..Len(accounts)
  /\ accounts[rq.acct].user_id # rq.user

\* C11: refreshToken and revokeAccess called with a userId that does not own
\* the account return false without contacting the provider and without
\* changing any field of the account.
C11_NonOwnerNoEffect ==
  [][\A r \in Reqs :
       Foreign(reqs[r]) =>
          /\ accounts' = accounts
          /\ ~reqs'[r].found /\ ~reqs'[r].fetched /\ ~reqs'[r].wrote
          /\ reqs'[r].pc \in {"rt_getAccount", "rv_getAccount", "done", "idle"}
          /\ reqs'[r].pc = "done" => reqs'[r].result.ret = "false"]_vars

\* a revokeAccess by a non-owner has returned false and the account is intact
C11_Witness ==
  \E r \in Reqs :
     /\ Foreign(reqs[r])
     /\ reqs[r].pc = "done"
     /\ reqs[r].result.ret = "false"
     /\ reqs[r].op = "revokeAccess"
     /\ accounts[reqs[r].acct].is_active
     /\ accounts[reqs[r].acct].sync_status = "success"

\* request rq came through an account route for an existing account of
\* another user
ForeignRoute(rq) ==
  /\ rq.op \in {"refreshToken", "revokeAccess", "sync", "getAccount", "patchAccount"}
  /\ rq.acct \in 1..Len(accounts)
  /\ accounts[rq.acct].user_id # rq.user

\* C12: every account route (DELETE, refresh, sync, GET, PATCH) enforces
\* ownership: a request for an account id owned by a different user changes
\* no field of that account.
C12_RoutesEnforceOwnership ==
  [][\A r \in Reqs :
       ForeignRoute(reqs[r]) => accounts'[reqs[r].acct] = accounts[reqs[r].acct]]_vars

\* the sweep has settled and account i was among the selected
Swept(i) == sweep.pc = "done" /\ i \in sweep.selected

TokensKept(i) ==
  /\ accounts'[i].encrypted_access_token = accounts[i].encrypted_access_token
  /\ accounts'[i].encrypted_refresh_token = accounts[i].encrypted_refresh_token
  /\ accounts'[i].token_expires_at = accounts[i].token_expires_at

\* C14: when the token endpoint answers a refresh with a non-success status,
\* refreshToken sets sync_status to 'error' with an error message, returns
\* false, and leaves the stored access token, refresh token and expiry as
\* they were.
C14_RefusedRefreshMarksError ==
  [][\A r \in Reqs :
       (reqs'[r].op = "refreshToken" /\ reqs'[r].remote = "notok") =>
          /\ reqs'[r].pc \in {"rt_markError", "done"}
          /\ TokensKept(reqs'[r].acct)
          /\ reqs'[r].pc = "done" =>
                /\ reqs'[r].result.ret = "false"
                /\ accounts'[reqs'[r].acct].sync_status = "error"
                /\ accounts'[reqs'[r].acct].sync_error = ErrRefresh]_vars

\* a refresh the provider refused has returned false on an account in error
C14_Witness ==
  \E r \in Reqs :
     /\ Finished(r, "refreshToken")
     /\ reqs[r].remote = "notok"
     /\ reqs[r].result.ret = "false"
     /\ accounts[reqs[r].acct].sync_status = "error"
     /\ accounts[reqs[r].acct].encrypted_access_token # NoBlob

\* C15: on a successful refresh, refreshToken stores the new access token
\* encrypted, stores the rotated refresh token or else keeps the previous
\* one, updates the expiry from expires_in, sets sync_status to 'success' and
\* returns true; the account never ends a successful refresh without a
\* stored refresh token.
C15_SuccessfulRefreshStored ==
  [][\A r \in Reqs :
       /\ (reqs[r].pc = "rt_update" /\ reqs'[r].pc \notin {"rt_update", "idle"}) =>
             LET tok == reqs[r].tok
                 a == reqs[r].acct
             IN  /\ reqs'[r].pc = "rt_markSuccess"
                 /\ accounts'[a].encrypted_access_token =
                       Encrypt(tok.access_token, encKey).blob
                 /\ accounts'[a].encrypted_refresh_token # NoBlob
                 /\ accounts'[a].encrypted_refresh_token =
                       Encrypt(tok.refresh_token, encKey).blob
                 /\ tok.expires_in # None =>
                       accounts'[a].token_expires_at = TokenExpiresAt(tok.expires_in)
       /\ (reqs[r].pc = "rt_markSuccess" /\ reqs'[r].pc \notin {"rt_markSuccess", "idle"}) =>
             /\ reqs'[r].pc = "done"
             /\ reqs'[r].result.ret = "true"
             /\ accounts'[reqs[r].acct].sync_status = "success"]_vars

\* C16: a decryption failure of the stored tokens during refreshToken never
\* escapes as an exception: the account's sync_status is set to 'error' and
\* the call returns false.
C16_DecryptFailureMarksError ==
  \A r \in Reqs :
     Finished(r, "refreshToken") =>
        /\ reqs[r].result.ret \in {"true", "false"}
        /\ reqs[r].result.err = ErrDecrypt =>
              /\ reqs[r].result.ret = "false"
              /\ accounts[reqs[r].acct].sync_status = "error"
              /\ accounts[reqs[r].acct].sync_error = ErrDecrypt

\* a refreshToken whose stored tokens did not decrypt has returned false
C16_Witness ==
  \E r \in Reqs :
     /\ Finished(r, "refreshToken")
     /\ reqs[r].result.err = ErrDecrypt
     /\ reqs[r].result.ret = "false"
     /\ ~reqs[r].fetched

\* request r is a settled request to the callback endpoint
CallbackAnswered(r) ==
  reqs[r].pc = "done" /\ reqs[r].op \in {"getCallback", "handleCallback"}

\* C17: the callback endpoint answers every request (provider error, missing
\* code or state, failed or successful handleCallback, exception,
\* unauthenticated caller) with a redirect to the front end carrying either
\* success=true and accountId or an error parameter, never with a JSON body.
C17_CallbackAlwaysRedirects ==
  \A r \in Reqs :
     CallbackAnswered(r) =>
        LET resp == CallbackResponse(reqs[r])
        IN  /\ resp.kind = "redirect"
            /\ \/ resp.success /\ resp.accountId \in 1..Len(accounts)
               \/ ~resp.success /\ resp.error # None

\* the value handed to decrypt is the one encrypt returned
Unaltered == cipher.data = cipher.orig

\* C18: for every non-empty string s and a configured key,
\* decrypt(encrypt(s)) returns s.
C18_RoundTrip ==
  (/\ cipher.pc = "decrypted"
   /\ Unaltered
   /\ cipher.plaintext # <<>>
   /\ GetEncryptionKey(cipher.key)) =>
      /\ cipher.out.ok
      /\ cipher.out.text = cipher.plaintext

BytesAltered ==
  \/ FromHex(cipher.data.encrypted) # FromHex(cipher.orig.encrypted)
  \/ Len(cipher.data.encrypted) % 2 # 0
  \/ FromHex(cipher.data.iv) # FromHex(cipher.orig.iv)
  \/ cipher.data.tag # cipher.orig.tag
  \/ cipher.data.encrypted = <<>>
  \/ cipher.data.iv = <<>>

IsEncrypted(blob) ==
  /\ blob.key \in Keys
  /\ blob.encrypted \in IssuedAccess \cup RefreshedAccess \cup IssuedRefresh \cup RotatedRefresh
  /\ blob = Encrypt(blob.encrypted, blob.key).blob

\* C20: in every reachable state the token columns of every connected
\* account hold only encrypted values: no write of create, update or
\* updateByIdAndUserId stores an access or refresh token in plaintext.
C20_TokensStoredEncrypted ==
  \A i \in 1..Len(accounts) :
     /\ IsEncrypted(accounts[i].encrypted_access_token)
     /\ \/ accounts[i].encrypted_refresh_token = NoBlob
        \/ IsEncrypted(accounts[i].encrypted_refresh_token)

\* an account holds the access token a refresh stored and its refresh token
C20_Witness ==
  \E i \in 1..Len(accounts), at \in RefreshedAccess :
     /\ accounts[i].encrypted_access_token = Encrypt(at, encKey).blob
     /\ accounts[i].encrypted_refresh_token # NoBlob
     /\ accounts[i].sync_status = "success"

\* this step starts the refreshToken calls of a sweep
SweepStarts == sweep.pc = "sw_select" /\ sweep'.pc = "sw_allSettled"

\* this step settles, with false, the refreshToken call a sweep made in slot r
SweepRefreshFailed(r) ==
  /\ r \in sweep.children /\ r \notin sweep'.children
  /\ reqs[r].result.ret = "false"

\* account i is active, expires inside the window, holds a refresh token and
\* is not in error
Due(accts, i) ==
  /\ accts[i].is_active
  /\ accts[i].token_expires_at = "soon"
  /\ accts[i].encrypted_refresh_token # NoBlob
  /\ accts[i].sync_status # "error"

\* every refreshToken call a sweep starts is for an account that is due
OnlyDueStarted ==
  SweepStarts =>
     \A r \in Reqs :
        reqs'[r].pc # "idle" =>
           /\ reqs'[r].op = "refreshToken"
           /\ r \in sweep'.children
           /\ reqs'[r].acct \in 1..Len(accounts)
           /\ Due(accounts, reqs'[r].acct)
           /\ reqs'[r].user = accounts[reqs'[r].acct].user_id

\* C21: refreshExpiringTokens calls refreshToken only for accounts
\* that are active, expire within ten minutes, hold a refresh token and are
\* not in error; an account whose refresh failed is therefore in error and
\* not picked by a later sweep.
C21_FailedNeverPickedAgain ==
  [][/\ OnlyDueStarted
     /\ \A r \in Reqs :
           SweepRefreshFailed(r) =>
              /\ accounts'[reqs[r].acct].sync_status = "error"
              /\ ~Due(accounts', reqs[r].acct)]_vars


\* this step makes the generateAuthUrl call of slot r throw error e
GenThrows(r, e) ==
  /\ reqs[r].pc # "done"
  /\ reqs'[r].op = "generateAuthUrl" /\ reqs'[r].pc = "done"
  /\ reqs'[r].result.ret = "throw" /\ reqs'[r].result.err = e

\* C22: generateAuthUrl for a provider that is not in the registry, or whose
\* database row is not found, throws the provider-not-found error and stores
\* no pending authorization.
C22_UnknownProviderStoresNothing ==
  [][\A r \in Reqs :
        /\ (/\ reqs[r].pc = "idle"
            /\ reqs'[r].op = "generateAuthUrl"
            /\ reqs'[r].provider \notin providers) => GenThrows(r, ErrNotConfigured)
        /\ (/\ reqs[r].pc = "gen_findByName"
            /\ reqs'[r].pc \notin {"gen_findByName", "idle"}
            /\ ~ProviderFind(dbProviders, reqs[r].provider)) => GenThrows(r, ErrNotInDb)
        /\ (\E e \in {ErrNotConfigured, ErrNotInDb} : GenThrows(r, e)) =>
              /\ pendingStates' = pendingStates
              /\ timers' = timers
              /\ nextState' = nextState]_vars

\* a generateAuthUrl call has thrown for a provider whose row is not found,
\* while an earlier authorization is pending
C22_Witness ==
  \E r \in Reqs :
     /\ Finished(r, "generateAuthUrl")
     /\ reqs[r].result.ret = "throw"
     /\ reqs[r].result.err = ErrNotInDb
     /\ \E s \in StateIds : pendingStates[s] # NoOAuth


\* this step ends the handleCallback of slot r at the code exchange, with the
\* token-exchange error
ExchangeFails(r) ==
  /\ reqs[r].pc = "hc_exchange"
  /\ reqs'[r].pc = "done"
  /\ reqs'[r].result.err = ErrTokenExchange

\* C23: a handleCallback whose code exchange is answered with a non-success
\* status ends with the token-exchange error and creates no ConnectedAccount;
\* its state stays consumed, no step brings a removed state back, and a
\* handleCallback carrying a removed state ends with the invalid-state error.
C23_FailedExchangeKeepsStateConsumed ==
  [][/\ \A r \in Reqs :
           ExchangeFails(r) =>
              /\ reqs'[r].result = [ret |-> "false", err |-> ErrTokenExchange, id |-> 0]
              /\ ~reqs'[r].wrote
              /\ accounts' = accounts
              /\ consumed'[reqs[r].state] >= 1
              /\ pendingStates'[reqs[r].state] = NoOAuth
     /\ \A s \in StateIds :
           (s < nextState /\ pendingStates[s] = NoOAuth) => pendingStates'[s] = NoOAuth
     /\ \A r \in Reqs, s \in StateIds :
           (CallbackArrives(r, s) /\ pendingStates[s] = NoOAuth) =>
              /\ reqs'[r].pc = "done"
              /\ reqs'[r].result = [ret |-> "false", err |-> ErrInvalidState, id |-> 0]
              /\ accounts' = accounts]_vars

\* a handleCallback has ended with the token-exchange error; its state is
\* consumed and gone
C23_Witness ==
  \E r \in Reqs :
     /\ Finished(r, "handleCallback")
     /\ reqs[r].result.err = ErrTokenExchange
     /\ consumed[reqs[r].state] = 1
     /\ pendingStates[reqs[r].state] = NoOAuth
     /\ accounts = <<>>


\* this step is the deactivateByIdAndUserId call of the revokeAccess in slot r
Deactivates(r) ==
  /\ reqs[r].pc \in {"rv_deactivate", "rv_catch"}
  /\ reqs'[r].pc = "done"

\* the row is inactive and disconnected
Disconnected(row) == ~row.is_active /\ row.sync_status = "disconnected"

\* C24: deactivateByIdAndUserId is idempotent: every call leaves the account
\* inactive and disconnected, a call on an account it has already deactivated
\* changes nothing, and applying it twice gives what applying it once gives.
C24_DeactivateIdempotent ==
  [][\A r \in Reqs :
        Deactivates(r) =>
           LET id == reqs[r].acct
               once == DeactivateByIdAndUserId(accounts, id, reqs[r].user)
           IN  /\ accounts' = once
               /\ Disconnected(accounts'[id])
               /\ DeactivateByIdAndUserId(once, id, reqs[r].user) = once
               /\ Disconnected(accounts[id]) => accounts' = accounts]_vars

\* a second deactivateByIdAndUserId is about to run on an account that an
\* earlier one has deactivated
C24_Witness ==
  \E r \in Reqs :
     /\ reqs[r].pc \in {"rv_deactivate", "rv_catch"}
     /\ reqs[r].acct \in 1..Len(accounts)
     /\ Disconnected(accounts[reqs[r].acct])


\* C25: the account a successful handleCallback writes belongs to the user
\* and the provider that generateAuthUrl recorded for the state: the record is
\* written from the generateAuthUrl arguments, is never altered while pending,
\* is what handleCallback reads and keeps, and is where the new row's user_id
\* and provider_id come from.
C25_OwnerFromPendingAuthorization ==
  [][/\ \A r \in Reqs :
           (reqs[r].pc = "gen_findByName" /\ reqs'[r].result.ret = "value") =>
              /\ pendingStates[reqs'[r].state] = NoOAuth
              /\ pendingStates'[reqs'[r].state].userId = reqs[r].user
              /\ pendingStates'[reqs'[r].state].providerId = reqs[r].provider
     /\ \A s \in StateIds :
           pendingStates[s] # NoOAuth => pendingStates'[s] \in {pendingStates[s], NoOAuth}
     /\ \A r \in Reqs, s \in StateIds :
           (CallbackArrives(r, s) /\ reqs'[r].result.err # ErrInvalidState) =>
              reqs'[r].oauth = pendingStates[s]
     /\ \A r \in Reqs :
           (reqs[r].op = "handleCallback" /\ reqs'[r].op = "handleCallback") =>
              reqs'[r].oauth = reqs[r].oauth
     /\ \A r \in Reqs :
           (reqs[r].pc = "hc_create" /\ reqs'[r].result.ret = "true") =>
              /\ Len(accounts') = Len(accounts) + 1
              /\ accounts'[Len(accounts')].user_id = reqs[r].oauth.userId
              /\ accounts'[Len(accounts')].provider_id = reqs[r].oauth.providerId
              /\ reqs[r].oauth.userId \in Users]_vars

\* both users hold an account, each made from a state of their own
C25_Witness ==
  /\ Len(accounts) = 2
  /\ accounts[1].user_id # accounts[2].user_id
  /\ \E r \in Reqs : Finished(r, "handleCallback") /\ reqs[r].result.ret = "true"


\* C26: in every reachable state an inactive ConnectedAccount has sync_status
\* 'disconnected': no refreshToken call or sync request overwrites the status
\* of a deactivated account.
C26_InactiveIsDisconnected ==
  \A i \in 1..Len(accounts) :
     ~accounts[i].is_active => accounts[i].sync_status = "disconnected"


\* this step is the expiry timer of state s firing
TimerFires(s) == s \in timers /\ s \notin timers'

\* C27: every pending authorization is eventually removed from the map, and
\* the expiry timer of one state leaves the entries of all other states alone.
C27_PendingEventuallyRemoved ==
  /\ \A s \in StateIds : (pendingStates[s] # NoOAuth) ~> (pendingStates[s] = NoOAuth)
  /\ [][\A s \in StateIds :
          TimerFires(s) =>
             \A t \in StateIds \ {s} : pendingStates'[t] = pendingStates[t]]_vars

\* the timer of an unconsumed state has removed its entry while the entry of
\* another state is still pending
C27_Witness ==
  \E s, t \in StateIds :
     /\ s # t
     /\ timerFired[s] /\ consumed[s] = 0 /\ pendingStates[s] = NoOAuth
     /\ pendingStates[t] # NoOAuth


\* C28: a job that markAsFailed has put into the status 'failed' is not
\* returned by findPending, be it because its retries are exhausted or
\* because markAsFailed was called with shouldRetry = false.
C28_FailedJobsNotPending ==
  \A t \in Tables : jobs[t].status = "failed" => FindPending(jobs, t) = {}

\* C29: the retry_count of a job is its initial value, 0, plus the number of
\* markAsFailed calls on it that have completed, however the calls interleave.
C29_RetryCountCountsFailures ==
  \A t \in Tables : jobs[t].retry_count = failures[t]


\* the rows of the pair (userId, feedId)
RowsOf(subs, userId, feedId) ==
  {i \in 1..Len(subs) : subs[i].user_id = userId /\ subs[i].feed_id = feedId}

\* C30: user.feed_subscriptions never holds two rows of one (userId, feedId);
\* a subscribe that finds the pair's row inactive goes on to set is_active on
\* that row and inserts nothing; a subscribe that finds it active returns and
\* changes nothing; only a subscribe that finds no row inserts one.
C30_OneSubscriptionPerPair ==
  /\ [](\A u \in Users, f \in Feeds : Cardinality(RowsOf(subscriptions, u, f)) <= 1)
  /\ [][\A c \in Calls :
          LET call == subCalls[c]
              rows == RowsOf(subscriptions, call.user, call.feed)
          IN  /\ (call.pc = "sb_find" /\ subCalls'[c] # call) =>
                    /\ subscriptions' = subscriptions
                    /\ (\E i \in rows : ~subscriptions[i].is_active) =>
                          /\ subCalls'[c].pc = "sb_update"
                          /\ subCalls'[c].existing \in rows
                    /\ (\E i \in rows : subscriptions[i].is_active) =>
                          subCalls'[c].pc = "idle"
                    /\ rows = {} => subCalls'[c].pc = "sb_create"
              /\ (call.pc = "sb_update" /\ subCalls'[c] # call) =>
                    /\ Len(subscriptions') = Len(subscriptions)
                    /\ subscriptions'[call.existing].is_active
                    /\ \A i \in 1..Len(subscriptions) :
                          i # call.existing => subscriptions'[i] = subscriptions[i]
              /\ (call.pc = "sb_create" /\ subCalls'[c] # call) =>
                    IF rows = {}
                    THEN /\ Len(subscriptions') = Len(subscriptions) + 1
                         /\ subscriptions'[Len(subscriptions')].is_active
                    ELSE subscriptions' = subscriptions]_vars

\* a subscribe that found the row an unsubscribe had deactivated is about to
\* reactivate it, while another subscribe is about to insert a row for a pair
\* that has got one in the meantime
C30_Witness ==
  \E c, d \in Calls :
     /\ subCalls[c].pc = "sb_update"
     /\ ~subscriptions[subCalls[c].existing].is_active
     /\ subCalls[d].pc = "sb_create"
     /\ RowsOf(subscriptions, subCalls[d].user, subCalls[d].feed) # {}

====
